---- MODULE Spec2Model ----
(***************************************************************************)
(* A model of the JSON-to-CSV converter (src/json_to_csv_converter.py):    *)
(* the price parser, the field mapper, the record standardizer, the        *)
(* document shape resolver and the batch orchestrator with its thread      *)
(* pool.                                                                   *)
(*                                                                         *)
(* Python strings are sequences of one-character strings, so that lower(), *)
(* substring tests, the price regex and str() are computed character by    *)
(* character.  A decoded JSON value is a record [t, v]: t is the Python    *)
(* type ("str", "int", "bool", "null", "list", "dict") and v its payload   *)
(* (a dict's payload is the sequence of its <<key, value>> items in        *)
(* insertion order).                                                       *)
(***************************************************************************)
EXTENDS Naturals, Integers, Sequences, FiniteSets, TLC

\* ------------------------------------------------------------------ strings

Digits == <<"0","1","2","3","4","5","6","7","8","9">>
UpperCase == <<"A","B","C","D","E","F","G","H","I","J","K","L","M","N","O","P","Q","R","S","T","U","V","W","X","Y","Z">>
LowerCase == <<"a","b","c","d","e","f","g","h","i","j","k","l","m","n","o","p","q","r","s","t","u","v","w","x","y","z">>

IsDigit(c) == \E i \in DOMAIN Digits : Digits[i] = c

LowerChar(c) ==
    IF \E i \in DOMAIN UpperCase : UpperCase[i] = c
    THEN LowerCase[CHOOSE i \in DOMAIN UpperCase : UpperCase[i] = c]
    ELSE c

\* str.lower()
RECURSIVE lower(_)
lower(s) == IF s = <<>> THEN <<>> ELSE <<LowerChar(Head(s))>> \o lower(Tail(s))

\* Python's  sub in s  for strings
Contains(sub, s) ==
    \E i \in 0..(Len(s) - Len(sub)) : SubSeq(s, i + 1, i + Len(sub)) = sub

IsSpace(c) == c = " "

\* str.strip()
RECURSIVE lstrip(_)
lstrip(s) == IF s # <<>> /\ IsSpace(Head(s)) THEN lstrip(Tail(s)) ELSE s
RECURSIVE rstrip(_)
rstrip(s) ==
    IF s # <<>> /\ IsSpace(s[Len(s)]) THEN rstrip(SubSeq(s, 1, Len(s) - 1)) ELSE s
strip(s) == rstrip(lstrip(s))

\* s[:n]
Prefix(s, n) == SubSeq(s, 1, IF Len(s) < n THEN Len(s) ELSE n)

\* sep.join(parts)
RECURSIVE join(_, _)
join(sep, parts) ==
    IF parts = <<>> THEN <<>>
    ELSE IF Len(parts) = 1 THEN parts[1]
    ELSE parts[1] \o sep \o join(sep, Tail(parts))

\* s.replace(c, '')
RECURSIVE RemoveChar(_, _)
RemoveChar(s, c) ==
    IF s = <<>> THEN <<>>
    ELSE (IF Head(s) = c THEN <<>> ELSE <<Head(s)>>) \o RemoveChar(Tail(s), c)

\* str(n) of an int
RECURSIVE NatStr(_)
NatStr(n) == IF n < 10 THEN <<Digits[n + 1]>> ELSE NatStr(n \div 10) \o <<Digits[(n % 10) + 1]>>
IntStr(n) == IF n < 0 THEN <<"-">> \o NatStr(0 - n) ELSE NatStr(n)

\* 10 ** d
RECURSIVE Pow10(_)
Pow10(d) == IF d = 0 THEN 1 ELSE 10 * Pow10(d - 1)

\* the d-digit numeral of n, padded with zeros on the left
RECURSIVE Digits0(_, _)
Digits0(n, d) == IF d = 0 THEN <<>> ELSE Digits0(n \div 10, d - 1) \o <<Digits[(n % 10) + 1]>>

\* str() of the float m / 10**d (d >= 1 decimals, the shortest numeral of the
\* float): Python prints it in positional notation, as  1999.0  or  19.99
FloatStr(m, d) ==
    LET a == IF m < 0 THEN 0 - m ELSE m
    IN  (IF m < 0 THEN <<"-">> ELSE <<>>)
        \o NatStr(a \div Pow10(d)) \o <<".">> \o Digits0(a % Pow10(d), d)

\* ------------------------------------------------------------- JSON values

JStr(s)   == [t |-> "str",  v |-> s]
JInt(n)   == [t |-> "int",  v |-> n]
\* the float m / 10**d
JFloat(m, d) == [t |-> "float", v |-> <<m, d>>]
JBool(b)  == [t |-> "bool", v |-> b]
JNull     == [t |-> "null", v |-> 0]
JList(xs) == [t |-> "list", v |-> xs]
JDict(kv) == [t |-> "dict", v |-> kv]

IsDict(x) == x.t = "dict"
IsList(x) == x.t = "list"
IsStr(x)  == x.t = "str"

\* key in d, d[key], for a dict d
Has(d, key) == \E i \in DOMAIN d.v : d.v[i][1] = key
Get(d, key) == d.v[CHOOSE i \in DOMAIN d.v : d.v[i][1] = key][2]

\* d[key] = val: an existing key keeps its position, a new one goes last
Put(d, key, val) ==
    IF Has(d, key)
    THEN JDict([i \in DOMAIN d.v |-> IF d.v[i][1] = key THEN <<key, val>> ELSE d.v[i]])
    ELSE JDict(Append(d.v, <<key, val>>))

\* Python truthiness
Truthy(x) ==
    CASE x.t = "str"  -> x.v # <<>>
      [] x.t = "int"  -> x.v # 0
      [] x.t = "float" -> x.v[1] # 0
      [] x.t = "bool" -> x.v
      [] x.t = "null" -> FALSE
      [] x.t = "list" -> x.v # <<>>
      [] x.t = "dict" -> x.v # <<>>

\* repr(x) and str(x): str of a string is the string, of anything else its repr
RECURSIVE repr(_)
RECURSIVE ReprItems(_)
RECURSIVE ReprPairs(_)
ReprItems(xs) == [i \in DOMAIN xs |-> repr(xs[i])]
ReprPairs(kv) == [i \in DOMAIN kv |-> <<"'">> \o kv[i][1] \o <<"'", ":", " ">> \o repr(kv[i][2])]
repr(x) ==
    CASE x.t = "str"  -> <<"'">> \o x.v \o <<"'">>
      [] x.t = "int"  -> IntStr(x.v)
      [] x.t = "float" -> FloatStr(x.v[1], x.v[2])
      [] x.t = "bool" -> IF x.v THEN <<"T","r","u","e">> ELSE <<"F","a","l","s","e">>
      [] x.t = "null" -> <<"N","o","n","e">>
      [] x.t = "list" -> <<"[">> \o join(<<",", " ">>, ReprItems(x.v)) \o <<"]">>
      [] x.t = "dict" -> <<"{">> \o join(<<",", " ">>, ReprPairs(x.v)) \o <<"}">>
str(x) == IF x.t = "str" THEN x.v ELSE repr(x)

\* ------------------------------------------------- canonical column headers

hItemID          == <<"I","t","e","m"," ","I","D">>
hItemName        == <<"I","t","e","m"," ","N","a","m","e">>
hSKU             == <<"S","K","U">>
hDescription     == <<"D","e","s","c","r","i","p","t","i","o","n">>
hRate            == <<"R","a","t","e">>
hSource          == <<"S","o","u","r","c","e">>
hReferenceID     == <<"R","e","f","e","r","e","n","c","e"," ","I","D">>
hUsageUnit       == <<"U","s","a","g","e"," ","u","n","i","t">>
hPurchaseRate    == <<"P","u","r","c","h","a","s","e"," ","R","a","t","e">>
hPurchaseAccount == <<"P","u","r","c","h","a","s","e"," ","A","c","c","o","u","n","t">>
hVendor          == <<"V","e","n","d","o","r">>
hItemType        == <<"I","t","e","m"," ","T","y","p","e">>
hIsComboProduct  == <<"I","s"," ","C","o","m","b","o"," ","P","r","o","d","u","c","t">>
hCFManufacturer  == <<"C","F",".","M","a","n","u","f","a","c","t","u","r","e","r">>
hCFURL           == <<"C","F",".","U","R","L">>
hCFMarkup        == <<"C","F",".","M","a","r","k","u","p">>
hCFDescription   == <<"C","F",".","D","e","s","c","r","i","p","t","i","o","n">>
hCFSupplier      == <<"C","F",".","S","u","p","p","l","i","e","r">>
hCFMaterial      == <<"C","F",".","M","a","t","e","r","i","a","l">>
hCFCost          == <<"C","F",".","C","o","s","t">>

STANDARD_HEADERS ==
    << hItemID, hItemName, hSKU, hDescription, hRate, hSource, hReferenceID,
       hUsageUnit, hPurchaseRate, hPurchaseAccount, hVendor, hItemType,
       hIsComboProduct, hCFManufacturer, hCFURL, hCFMarkup, hCFDescription,
       hCFSupplier, hCFMaterial, hCFCost >>

HeaderSet == {STANDARD_HEADERS[i] : i \in DOMAIN STANDARD_HEADERS}

\* The mapping of source fields to standard fields, in definition order.
FIELD_MAPPING == <<
    <<<<"i","d">>, <<"I","t","e","m"," ","I","D">>>>,
    <<<<"i","t","e","m","_","i","d">>, <<"I","t","e","m"," ","I","D">>>>,
    <<<<"i","t","e","m","I","d">>, <<"I","t","e","m"," ","I","D">>>>,
    <<<<"p","r","o","d","u","c","t","_","i","d">>, <<"I","t","e","m"," ","I","D">>>>,
    <<<<"p","r","o","d","u","c","t","I","d">>, <<"I","t","e","m"," ","I","D">>>>,
    <<<<"n","a","m","e">>, <<"I","t","e","m"," ","N","a","m","e">>>>,
    <<<<"i","t","e","m","_","n","a","m","e">>, <<"I","t","e","m"," ","N","a","m","e">>>>,
    <<<<"i","t","e","m","N","a","m","e">>, <<"I","t","e","m"," ","N","a","m","e">>>>,
    <<<<"p","r","o","d","u","c","t","_","n","a","m","e">>, <<"I","t","e","m"," ","N","a","m","e">>>>,
    <<<<"p","r","o","d","u","c","t","N","a","m","e">>, <<"I","t","e","m"," ","N","a","m","e">>>>,
    <<<<"t","i","t","l","e">>, <<"I","t","e","m"," ","N","a","m","e">>>>,
    <<<<"s","k","u">>, <<"S","K","U">>>>,
    <<<<"i","t","e","m","_","s","k","u">>, <<"S","K","U">>>>,
    <<<<"i","t","e","m","S","k","u">>, <<"S","K","U">>>>,
    <<<<"p","r","o","d","u","c","t","_","s","k","u">>, <<"S","K","U">>>>,
    <<<<"p","r","o","d","u","c","t","S","k","u">>, <<"S","K","U">>>>,
    <<<<"m","o","d","e","l">>, <<"S","K","U">>>>,
    <<<<"m","o","d","e","l","_","n","u","m","b","e","r">>, <<"S","K","U">>>>,
    <<<<"m","o","d","e","l","N","u","m","b","e","r">>, <<"S","K","U">>>>,
    <<<<"d","e","s","c","r","i","p","t","i","o","n">>, <<"D","e","s","c","r","i","p","t","i","o","n">>>>,
    <<<<"i","t","e","m","_","d","e","s","c","r","i","p","t","i","o","n">>, <<"D","e","s","c","r","i","p","t","i","o","n">>>>,
    <<<<"i","t","e","m","D","e","s","c","r","i","p","t","i","o","n">>, <<"D","e","s","c","r","i","p","t","i","o","n">>>>,
    <<<<"p","r","o","d","u","c","t","_","d","e","s","c","r","i","p","t","i","o","n">>, <<"D","e","s","c","r","i","p","t","i","o","n">>>>,
    <<<<"p","r","o","d","u","c","t","D","e","s","c","r","i","p","t","i","o","n">>, <<"D","e","s","c","r","i","p","t","i","o","n">>>>,
    <<<<"d","e","t","a","i","l","s">>, <<"D","e","s","c","r","i","p","t","i","o","n">>>>,
    <<<<"p","r","o","d","u","c","t","_","d","e","t","a","i","l","s">>, <<"D","e","s","c","r","i","p","t","i","o","n">>>>,
    <<<<"p","r","o","d","u","c","t","D","e","t","a","i","l","s">>, <<"D","e","s","c","r","i","p","t","i","o","n">>>>,
    <<<<"p","r","i","c","e">>, <<"R","a","t","e">>>>,
    <<<<"r","a","t","e">>, <<"R","a","t","e">>>>,
    <<<<"i","t","e","m","_","p","r","i","c","e">>, <<"R","a","t","e">>>>,
    <<<<"i","t","e","m","P","r","i","c","e">>, <<"R","a","t","e">>>>,
    <<<<"p","r","o","d","u","c","t","_","p","r","i","c","e">>, <<"R","a","t","e">>>>,
    <<<<"p","r","o","d","u","c","t","P","r","i","c","e">>, <<"R","a","t","e">>>>,
    <<<<"u","n","i","t","_","p","r","i","c","e">>, <<"R","a","t","e">>>>,
    <<<<"u","n","i","t","P","r","i","c","e">>, <<"R","a","t","e">>>>,
    <<<<"r","e","f","e","r","e","n","c","e","_","i","d">>, <<"R","e","f","e","r","e","n","c","e"," ","I","D">>>>,
    <<<<"r","e","f","e","r","e","n","c","e","I","d">>, <<"R","e","f","e","r","e","n","c","e"," ","I","D">>>>,
    <<<<"r","e","f","_","i","d">>, <<"R","e","f","e","r","e","n","c","e"," ","I","D">>>>,
    <<<<"r","e","f","I","d">>, <<"R","e","f","e","r","e","n","c","e"," ","I","D">>>>,
    <<<<"e","x","t","e","r","n","a","l","_","i","d">>, <<"R","e","f","e","r","e","n","c","e"," ","I","D">>>>,
    <<<<"e","x","t","e","r","n","a","l","I","d">>, <<"R","e","f","e","r","e","n","c","e"," ","I","D">>>>,
    <<<<"u","n","i","t">>, <<"U","s","a","g","e"," ","u","n","i","t">>>>,
    <<<<"u","s","a","g","e","_","u","n","i","t">>, <<"U","s","a","g","e"," ","u","n","i","t">>>>,
    <<<<"u","s","a","g","e","U","n","i","t">>, <<"U","s","a","g","e"," ","u","n","i","t">>>>,
    <<<<"m","e","a","s","u","r","e","_","u","n","i","t">>, <<"U","s","a","g","e"," ","u","n","i","t">>>>,
    <<<<"m","e","a","s","u","r","e","U","n","i","t">>, <<"U","s","a","g","e"," ","u","n","i","t">>>>,
    <<<<"p","u","r","c","h","a","s","e","_","p","r","i","c","e">>, <<"P","u","r","c","h","a","s","e"," ","R","a","t","e">>>>,
    <<<<"p","u","r","c","h","a","s","e","P","r","i","c","e">>, <<"P","u","r","c","h","a","s","e"," ","R","a","t","e">>>>,
    <<<<"c","o","s","t","_","p","r","i","c","e">>, <<"P","u","r","c","h","a","s","e"," ","R","a","t","e">>>>,
    <<<<"c","o","s","t","P","r","i","c","e">>, <<"P","u","r","c","h","a","s","e"," ","R","a","t","e">>>>,
    <<<<"w","h","o","l","e","s","a","l","e","_","p","r","i","c","e">>, <<"P","u","r","c","h","a","s","e"," ","R","a","t","e">>>>,
    <<<<"w","h","o","l","e","s","a","l","e","P","r","i","c","e">>, <<"P","u","r","c","h","a","s","e"," ","R","a","t","e">>>>,
    <<<<"c","a","t","e","g","o","r","y">>, <<"I","t","e","m"," ","T","y","p","e">>>>,
    <<<<"i","t","e","m","_","t","y","p","e">>, <<"I","t","e","m"," ","T","y","p","e">>>>,
    <<<<"i","t","e","m","T","y","p","e">>, <<"I","t","e","m"," ","T","y","p","e">>>>,
    <<<<"p","r","o","d","u","c","t","_","t","y","p","e">>, <<"I","t","e","m"," ","T","y","p","e">>>>,
    <<<<"p","r","o","d","u","c","t","T","y","p","e">>, <<"I","t","e","m"," ","T","y","p","e">>>>,
    <<<<"p","r","o","d","u","c","t","_","c","a","t","e","g","o","r","y">>, <<"I","t","e","m"," ","T","y","p","e">>>>,
    <<<<"p","r","o","d","u","c","t","C","a","t","e","g","o","r","y">>, <<"I","t","e","m"," ","T","y","p","e">>>>,
    <<<<"m","a","n","u","f","a","c","t","u","r","e","r">>, <<"C","F",".","M","a","n","u","f","a","c","t","u","r","e","r">>>>,
    <<<<"b","r","a","n","d">>, <<"C","F",".","M","a","n","u","f","a","c","t","u","r","e","r">>>>,
    <<<<"m","a","k","e","r">>, <<"C","F",".","M","a","n","u","f","a","c","t","u","r","e","r">>>>,
    <<<<"u","r","l">>, <<"C","F",".","U","R","L">>>>,
    <<<<"p","r","o","d","u","c","t","_","u","r","l">>, <<"C","F",".","U","R","L">>>>,
    <<<<"p","r","o","d","u","c","t","U","r","l">>, <<"C","F",".","U","R","L">>>>,
    <<<<"l","i","n","k">>, <<"C","F",".","U","R","L">>>>,
    <<<<"w","e","b","_","l","i","n","k">>, <<"C","F",".","U","R","L">>>>,
    <<<<"w","e","b","L","i","n","k">>, <<"C","F",".","U","R","L">>>>,
    <<<<"m","a","t","e","r","i","a","l">>, <<"C","F",".","M","a","t","e","r","i","a","l">>>>,
    <<<<"m","a","t","e","r","i","a","l","s">>, <<"C","F",".","M","a","t","e","r","i","a","l">>>>,
    <<<<"i","t","e","m","_","m","a","t","e","r","i","a","l">>, <<"C","F",".","M","a","t","e","r","i","a","l">>>>,
    <<<<"i","t","e","m","M","a","t","e","r","i","a","l">>, <<"C","F",".","M","a","t","e","r","i","a","l">>>>,
    <<<<"p","r","o","d","u","c","t","_","m","a","t","e","r","i","a","l">>, <<"C","F",".","M","a","t","e","r","i","a","l">>>>,
    <<<<"p","r","o","d","u","c","t","M","a","t","e","r","i","a","l">>, <<"C","F",".","M","a","t","e","r","i","a","l">>>>
>>

\* ------------------------------------------------------------ field mapper

map_field_name(field_name) ==
    LET field_lower == lower(field_name)
        exact == {i \in DOMAIN FIELD_MAPPING : FIELD_MAPPING[i][1] = field_lower}
        partial == {i \in DOMAIN FIELD_MAPPING : Contains(FIELD_MAPPING[i][1], field_lower)}
        first(S) == CHOOSE i \in S : \A j \in S : i <= j
    IN  IF exact # {} THEN FIELD_MAPPING[first(exact)][2]
        ELSE IF partial # {} THEN FIELD_MAPPING[first(partial)][2]
        ELSE field_name

\* ------------------------------------------------------------ price parser

\* re.search(r'\$?([\d,]+\.?\d*)', s): the group starts at the first digit or
\* comma of s (an optional "$" before it is outside the group), runs over the
\* digits and commas, then an optional ".", then the digits after it.
IsPriceChar(c) == IsDigit(c) \/ c = ","

RECURSIVE RunEnd(_, _, _)
\* the last position of the run of characters satisfying `digitsOnly ? \d : [\d,]`
\* that starts at position i of s (i - 1 when the run is empty)
RunEnd(s, i, digitsOnly) ==
    IF i <= Len(s) /\ (IF digitsOnly THEN IsDigit(s[i]) ELSE IsPriceChar(s[i]))
    THEN RunEnd(s, i + 1, digitsOnly)
    ELSE i - 1

PriceMatches(s) == \E i \in DOMAIN s : IsPriceChar(s[i])

PriceGroup(s) ==
    LET start == CHOOSE i \in DOMAIN s :
                    IsPriceChar(s[i]) /\ \A j \in 1..(i - 1) : ~IsPriceChar(s[j])
        e1 == RunEnd(s, start, FALSE)
        e2 == IF e1 + 1 <= Len(s) /\ s[e1 + 1] = "." THEN e1 + 1 ELSE e1
        e3 == RunEnd(s, e2 + 1, TRUE)
    IN  SubSeq(s, start, e3)

\* A faulty variant of extract_price: the thousands separators stay in the
\* matched numeral.
extract_priceKeepsCommas(value) ==
    IF value.t = "int" \/ value.t = "float" \/ value.t = "bool" THEN str(value)
    ELSE IF value.t = "str" /\ PriceMatches(value.v)
         THEN PriceGroup(value.v)
    ELSE str(value)

extract_price(value) ==
    IF value.t = "int" \/ value.t = "float" \/ value.t = "bool" THEN str(value)
    ELSE IF value.t = "str" /\ PriceMatches(value.v)
         THEN RemoveChar(PriceGroup(value.v), ",")
    ELSE str(value)

\* ------------------------------------------------------ record standardizer

Consumed ==
    { <<"i","d","e","n","t","i","f","i","e","r","s">>, <<"t","i","t","l","e">>, <<"n","a","m","e">>, <<"d","e","s","c","r","i","p","t","i","o","n">>, <<"d","e","t","a","i","l","s">>, <<"p","r","i","c","e">>,
      <<"b","r","a","n","d">>, <<"c","a","t","e","g","o","r","y">>, <<"c","a","t","e","g","o","r","i","e","s">>, <<"l","i","n","k">>, <<"u","r","l">>, <<"s","p","e","c","i","f","i","c","a","t","i","o","n","s">> }

\* spec['key'].lower() raises AttributeError when the key is not a string
StandardizeRaises(record) ==
    /\ Has(record, <<"s","p","e","c","i","f","i","c","a","t","i","o","n","s">>)
    /\ IsList(Get(record, <<"s","p","e","c","i","f","i","c","a","t","i","o","n","s">>))
    /\ \E i \in DOMAIN Get(record, <<"s","p","e","c","i","f","i","c","a","t","i","o","n","s">>).v :
          LET spec == Get(record, <<"s","p","e","c","i","f","i","c","a","t","i","o","n","s">>).v[i]
          IN  /\ IsDict(spec)
              /\ Has(spec, <<"k","e","y">>)
              /\ Has(spec, <<"v","a","l","u","e">>)
              /\ ~IsStr(Get(spec, <<"k","e","y">>))

\* The defaults: every header empty, then the five fixed values.
DefaultRow ==
    [h \in HeaderSet |->
        IF h \in {hSource, hPurchaseAccount, hVendor, hCFSupplier} THEN <<"H","D">>
        ELSE IF h = hCFMarkup THEN <<"4","3","%">>
        ELSE <<>>]

WithItemID(record, std) ==
    IF Has(record, <<"i","t","e","m","_","i","d">>)
    THEN [std EXCEPT ![hItemID] = str(Get(record, <<"i","t","e","m","_","i","d">>))]
    ELSE IF Has(record, <<"m","o","d","e","l","_","n","u","m","b","e","r">>)
    THEN [std EXCEPT ![hItemID] = str(Get(record, <<"m","o","d","e","l","_","n","u","m","b","e","r">>))]
    ELSE std

WithSKU(record, std) ==
    IF Has(record, <<"m","o","d","e","l","_","n","u","m","b","e","r">>)
    THEN [std EXCEPT ![hSKU] = str(Get(record, <<"m","o","d","e","l","_","n","u","m","b","e","r">>))]
    ELSE IF Has(record, <<"s","t","o","r","e","_","s","k","u">>)
    THEN [std EXCEPT ![hSKU] = str(Get(record, <<"s","t","o","r","e","_","s","k","u">>))]
    ELSE std

WithIdentifiers(record, std) ==
    IF Has(record, <<"i","d","e","n","t","i","f","i","e","r","s">>) /\ IsDict(Get(record, <<"i","d","e","n","t","i","f","i","e","r","s">>))
    THEN LET ids == Get(record, <<"i","d","e","n","t","i","f","i","e","r","s">>)
             a == IF std[hItemID] = <<>>
                  THEN IF Has(ids, <<"p","r","o","d","u","c","t","_","i","d">>)
                       THEN [std EXCEPT ![hItemID] = str(Get(ids, <<"p","r","o","d","u","c","t","_","i","d">>))]
                       ELSE IF Has(ids, <<"i","t","e","m","_","i","d">>)
                       THEN [std EXCEPT ![hItemID] = str(Get(ids, <<"i","t","e","m","_","i","d">>))]
                       ELSE std
                  ELSE std
         IN  IF a[hSKU] = <<>>
             THEN IF Has(ids, <<"s","k","u">>)
                  THEN [a EXCEPT ![hSKU] = str(Get(ids, <<"s","k","u">>))]
                  ELSE IF Has(ids, <<"m","o","d","e","l","_","n","u","m","b","e","r">>)
                  THEN [a EXCEPT ![hSKU] = str(Get(ids, <<"m","o","d","e","l","_","n","u","m","b","e","r">>))]
                  ELSE a
             ELSE a
    ELSE std

WithName(record, std) ==
    IF Has(record, <<"t","i","t","l","e">>)
    THEN [std EXCEPT ![hItemName] = str(Get(record, <<"t","i","t","l","e">>))]
    ELSE IF Has(record, <<"n","a","m","e">>)
    THEN [std EXCEPT ![hItemName] = str(Get(record, <<"n","a","m","e">>))]
    ELSE std

Both(std, v) == [std EXCEPT ![hDescription] = v, ![hCFDescription] = v]

WithDescription(record, std) ==
    IF Has(record, <<"d","e","s","c","r","i","p","t","i","o","n">>) /\ Truthy(Get(record, <<"d","e","s","c","r","i","p","t","i","o","n">>))
    THEN Both(std, str(Get(record, <<"d","e","s","c","r","i","p","t","i","o","n">>)))
    ELSE IF Has(record, <<"d","e","t","a","i","l","s">>) /\ Truthy(Get(record, <<"d","e","t","a","i","l","s">>))
    THEN Both(std, str(Get(record, <<"d","e","t","a","i","l","s">>)))
    ELSE IF Has(record, <<"t","i","t","l","e">>) /\ Truthy(Get(record, <<"t","i","t","l","e">>))
    THEN Both(std, str(Get(record, <<"t","i","t","l","e">>)))
    ELSE IF std[hItemName] # <<>>
    THEN Both(std, std[hItemName])
    ELSE std

\* price_value: [set |-> FALSE] is None, [set |-> TRUE, s |-> the string]
PriceValue(record) ==
    LET none == [set |-> FALSE, s |-> <<>>]
        bb == IF /\ Has(record, <<"b","u","y","b","o","x","_","w","i","n","n","e","r">>)
                 /\ IsDict(Get(record, <<"b","u","y","b","o","x","_","w","i","n","n","e","r">>))
                 /\ Has(Get(record, <<"b","u","y","b","o","x","_","w","i","n","n","e","r">>), <<"p","r","i","c","e">>)
              THEN [set |-> TRUE,
                    s |-> extract_price(Get(Get(record, <<"b","u","y","b","o","x","_","w","i","n","n","e","r">>), <<"p","r","i","c","e">>))]
              ELSE none
    IN  IF ~bb.set /\ Has(record, <<"p","r","i","c","e">>)
        THEN [set |-> TRUE, s |-> extract_price(Get(record, <<"p","r","i","c","e">>))]
        ELSE bb

WithPrice(record, std) ==
    LET price_value == PriceValue(record)
    IN  IF price_value.set /\ price_value.s # <<>>
        THEN [std EXCEPT ![hRate] = price_value.s,
                         ![hPurchaseRate] = price_value.s,
                         ![hCFCost] = price_value.s]
        ELSE std

WithBrand(record, std) ==
    IF Has(record, <<"b","r","a","n","d">>) /\ Truthy(Get(record, <<"b","r","a","n","d">>))
    THEN [std EXCEPT ![hCFManufacturer] = str(Get(record, <<"b","r","a","n","d">>))]
    ELSE std

WithCategory(record, std) ==
    IF Has(record, <<"c","a","t","e","g","o","r","y">>) /\ Truthy(Get(record, <<"c","a","t","e","g","o","r","y">>))
    THEN [std EXCEPT ![hItemType] = str(Get(record, <<"c","a","t","e","g","o","r","y">>))]
    ELSE IF /\ Has(record, <<"c","a","t","e","g","o","r","i","e","s">>)
            /\ Truthy(Get(record, <<"c","a","t","e","g","o","r","i","e","s">>))
            /\ IsList(Get(record, <<"c","a","t","e","g","o","r","i","e","s">>))
    THEN [std EXCEPT ![hItemType] = str(Get(record, <<"c","a","t","e","g","o","r","i","e","s">>).v[1])]
    ELSE std

WithURL(record, std) ==
    IF Has(record, <<"l","i","n","k">>) /\ Truthy(Get(record, <<"l","i","n","k">>))
    THEN [std EXCEPT ![hCFURL] = str(Get(record, <<"l","i","n","k">>))]
    ELSE IF Has(record, <<"u","r","l">>) /\ Truthy(Get(record, <<"u","r","l">>))
    THEN [std EXCEPT ![hCFURL] = str(Get(record, <<"u","r","l">>))]
    ELSE std

RECURSIVE MaterialFrom(_, _, _)
\* the loop over record['specifications'] from entry i on (no key raises here:
\* StandardizeRaises is checked first)
MaterialFrom(specs, i, std) ==
    IF i > Len(specs) THEN std
    ELSE LET spec == specs[i]
             hit == /\ IsDict(spec)
                    /\ Has(spec, <<"k","e","y">>)
                    /\ Has(spec, <<"v","a","l","u","e">>)
                    /\ lower(Get(spec, <<"k","e","y">>).v) \in {<<"m","a","t","e","r","i","a","l">>, <<"m","a","t","e","r","i","a","l","s">>}
         IN  MaterialFrom(specs, i + 1,
                IF hit THEN [std EXCEPT ![hCFMaterial] = str(Get(spec, <<"v","a","l","u","e">>))]
                ELSE std)

WithMaterial(record, std) ==
    IF Has(record, <<"s","p","e","c","i","f","i","c","a","t","i","o","n","s">>) /\ IsList(Get(record, <<"s","p","e","c","i","f","i","c","a","t","i","o","n","s">>))
    THEN MaterialFrom(Get(record, <<"s","p","e","c","i","f","i","c","a","t","i","o","n","s">>).v, 1, std)
    ELSE std

\* A faulty variant of MapRemainingField: it fills the column whether or not it
\* is already set.
MapRemainingFieldOverwrite(field, value, std) ==
    IF field \in Consumed THEN std
    ELSE LET standard_field == map_field_name(field)
         IN  IF standard_field \in HeaderSet
             THEN [std EXCEPT ![standard_field] = str(value)]
             ELSE std

\* One iteration of "Map any remaining fields from the record".
MapRemainingField(field, value, std) ==
    IF field \in Consumed THEN std
    ELSE LET standard_field == map_field_name(field)
         IN  IF standard_field \in HeaderSet /\ std[standard_field] = <<>>
             THEN [std EXCEPT ![standard_field] = str(value)]
             ELSE std

RECURSIVE MapRemaining(_, _, _)
MapRemaining(items, i, std) ==
    IF i > Len(items) THEN std
    ELSE MapRemaining(items, i + 1, MapRemainingField(items[i][1], items[i][2], std))

\* standardize_record(record) for a record on which it does not raise
standardize_record(record) ==
    LET s1 == WithItemID(record, DefaultRow)
        s2 == WithSKU(record, s1)
        s3 == WithIdentifiers(record, s2)
        s4 == WithName(record, s3)
        s5 == WithDescription(record, s4)
        s6 == WithPrice(record, s5)
        s7 == WithBrand(record, s6)
        s8 == WithCategory(record, s7)
        s9 == WithURL(record, s8)
        s10 == WithMaterial(record, s9)
    IN  MapRemaining(record.v, 1, s10)

\* ----------------------------------------------------------- duplicate key

RECURSIVE NonEmptyValues(_, _)
\* [str(v) for k, v in record.items() if v and k in STANDARD_HEADERS], from column i
NonEmptyValues(record, i) ==
    IF i > Len(STANDARD_HEADERS) THEN <<>>
    ELSE (IF record[STANDARD_HEADERS[i]] # <<>> THEN <<record[STANDARD_HEADERS[i]]>> ELSE <<>>)
         \o NonEmptyValues(record, i + 1)

\* A faulty variant of generate_record_key: the Item ID and the SKU are used as
\* they are, without the prefix that names the level.
generate_record_keyBare(record, now) ==
    IF record[hItemID] # <<>> THEN record[hItemID]
    ELSE IF record[hSKU] # <<>> THEN record[hSKU]
    ELSE IF record[hItemName] # <<>> /\ record[hDescription] # <<>>
    THEN <<"n","a","m","e","_","d","e","s","c",":">> \o lower(strip(record[hItemName])) \o <<"_">>
         \o Prefix(lower(strip(record[hDescription])), 50)
    ELSE LET values == NonEmptyValues(record, 1)
         IN  IF values # <<>>
             THEN <<"h","a","s","h",":">> \o join(<<"_">>, SubSeq(values, 1, IF Len(values) < 5 THEN Len(values) ELSE 5))
             ELSE <<"u","n","k","n","o","w","n",":">> \o now

\* now: the reading of time.time() as a string
generate_record_key(record, now) ==
    IF record[hItemID] # <<>> THEN <<"i","d",":">> \o record[hItemID]
    ELSE IF record[hSKU] # <<>> THEN <<"s","k","u",":">> \o record[hSKU]
    ELSE IF record[hItemName] # <<>> /\ record[hDescription] # <<>>
    THEN <<"n","a","m","e","_","d","e","s","c",":">> \o lower(strip(record[hItemName])) \o <<"_">>
         \o Prefix(lower(strip(record[hDescription])), 50)
    ELSE LET values == NonEmptyValues(record, 1)
         IN  IF values # <<>>
             THEN <<"h","a","s","h",":">> \o join(<<"_">>, SubSeq(values, 1, IF Len(values) < 5 THEN Len(values) ELSE 5))
             ELSE <<"u","n","k","n","o","w","n",":">> \o now

\* ------------------------------------------------- document shape resolver

kProduct       == <<"p","r","o","d","u","c","t">>
kBuyboxWinner  == <<"b","u","y","b","o","x","_","w","i","n","n","e","r">>
kSearchResults == <<"s","e","a","r","c","h","_","r","e","s","u","l","t","s">>
kProducts      == <<"p","r","o","d","u","c","t","s">>
kPrice         == <<"p","r","i","c","e">>
kOffers        == <<"o","f","f","e","r","s">>

\* Python's  key in json_data  where it does not raise: dict keys, list
\* elements, substrings of a string
KeyIn(json_data, key) ==
    CASE json_data.t = "dict" -> Has(json_data, key)
      [] json_data.t = "list" ->
            \E i \in DOMAIN json_data.v : IsStr(json_data.v[i]) /\ json_data.v[i].v = key
      [] json_data.t = "str"  -> Contains(key, json_data.v)
      [] OTHER -> FALSE

\* A decoded document that is no mapping makes the shape tests raise TypeError:
\* key in json_data  on a number, a boolean or null, and  json_data[key]  on a
\* list or a string in which the key was found.
DocRaises(json_data) ==
    \/ json_data.t \in {"int", "bool", "null"}
    \/ /\ json_data.t \in {"list", "str"}
       /\ \/ KeyIn(json_data, kProduct)
          \/ KeyIn(json_data, kSearchResults)
          \/ KeyIn(json_data, kProducts)

RECURSIVE MergedResults(_, _)
\* the loop over json_data['search_results'] (array format) from element i on
MergedResults(results, i) ==
    IF i > Len(results) THEN <<>>
    ELSE LET result == results[i]
             p0 == IF Has(result, kProduct) /\ IsDict(Get(result, kProduct))
                   THEN JDict(Get(result, kProduct).v) ELSE JDict(<<>>)
             product_data ==
                   IF Has(result, kOffers) /\ IsDict(Get(result, kOffers))
                   THEN Put(p0, kOffers, Get(result, kOffers)) ELSE p0
         IN  (IF IsDict(result)
              THEN IF product_data.v # <<>> THEN <<product_data>> ELSE <<>>
              ELSE <<>>)
             \o MergedResults(results, i + 1)

RECURSIVE OnlyDicts(_, _)
OnlyDicts(xs, i) ==
    IF i > Len(xs) THEN <<>>
    ELSE (IF IsDict(xs[i]) THEN <<xs[i]>> ELSE <<>>) \o OnlyDicts(xs, i + 1)

\* A faulty variant of extract_product_data: the test for a direct product list
\* comes first.
extract_product_dataListFirst(json_data) ==
    IF KeyIn(json_data, kProducts) /\ IsList(Get(json_data, kProducts))
    THEN Get(json_data, kProducts)
    ELSE IF KeyIn(json_data, kProduct) /\ IsDict(Get(json_data, kProduct))
    THEN LET product_data == Get(json_data, kProduct)
         IN  IF KeyIn(json_data, kBuyboxWinner) /\ IsDict(Get(json_data, kBuyboxWinner))
             THEN LET bw == Get(json_data, kBuyboxWinner)
                      p1 == IF Has(bw, kPrice)
                            THEN Put(product_data, kPrice, Get(bw, kPrice))
                            ELSE product_data
                  IN  Put(p1, kBuyboxWinner, bw)
             ELSE IF Has(product_data, kBuyboxWinner) /\ IsDict(Get(product_data, kBuyboxWinner))
             THEN IF Has(Get(product_data, kBuyboxWinner), kPrice)
                  THEN Put(product_data, kPrice, Get(Get(product_data, kBuyboxWinner), kPrice))
                  ELSE product_data
             ELSE product_data
    ELSE IF KeyIn(json_data, kSearchResults) /\ IsList(Get(json_data, kSearchResults))
    THEN LET products == MergedResults(Get(json_data, kSearchResults).v, 1)
         IN  IF products # <<>> THEN JList(products) ELSE JNull
    ELSE IF /\ KeyIn(json_data, kSearchResults)
            /\ IsDict(Get(json_data, kSearchResults))
            /\ Has(Get(json_data, kSearchResults), kProducts)
            /\ IsList(Get(Get(json_data, kSearchResults), kProducts))
    THEN LET products == OnlyDicts(Get(Get(json_data, kSearchResults), kProducts).v, 1)
         IN  IF products # <<>> THEN JList(products) ELSE JNull
    ELSE IF KeyIn(json_data, kProducts) /\ IsList(Get(json_data, kProducts))
    THEN Get(json_data, kProducts)
    ELSE JNull

\* extract_product_data(json_data), for a json_data on which it does not raise:
\* a dict, a list, or JNull for None
extract_product_data(json_data) ==
    IF KeyIn(json_data, kProduct) /\ IsDict(Get(json_data, kProduct))
    THEN LET product_data == Get(json_data, kProduct)
         IN  IF KeyIn(json_data, kBuyboxWinner) /\ IsDict(Get(json_data, kBuyboxWinner))
             THEN LET bw == Get(json_data, kBuyboxWinner)
                      p1 == IF Has(bw, kPrice)
                            THEN Put(product_data, kPrice, Get(bw, kPrice))
                            ELSE product_data
                  IN  Put(p1, kBuyboxWinner, bw)
             ELSE IF Has(product_data, kBuyboxWinner) /\ IsDict(Get(product_data, kBuyboxWinner))
             THEN IF Has(Get(product_data, kBuyboxWinner), kPrice)
                  THEN Put(product_data, kPrice, Get(Get(product_data, kBuyboxWinner), kPrice))
                  ELSE product_data
             ELSE product_data
    ELSE IF KeyIn(json_data, kSearchResults) /\ IsList(Get(json_data, kSearchResults))
    THEN LET products == MergedResults(Get(json_data, kSearchResults).v, 1)
         IN  IF products # <<>> THEN JList(products) ELSE JNull
    ELSE IF /\ KeyIn(json_data, kSearchResults)
            /\ IsDict(Get(json_data, kSearchResults))
            /\ Has(Get(json_data, kSearchResults), kProducts)
            /\ IsList(Get(Get(json_data, kSearchResults), kProducts))
    THEN LET products == OnlyDicts(Get(Get(json_data, kSearchResults), kProducts).v, 1)
         IN  IF products # <<>> THEN JList(products) ELSE JNull
    ELSE IF KeyIn(json_data, kProducts) /\ IsList(Get(json_data, kProducts))
    THEN Get(json_data, kProducts)
    ELSE JNull

\* ---------------------------------------------------------- one file's work

\* process_json_file's "direct approach": the product copy with the top-level
\* buybox_winner attached
DirectProduct(json_data) ==
    LET product == Get(json_data, kProduct)
    IN  IF Has(json_data, kBuyboxWinner) /\ IsDict(Get(json_data, kBuyboxWinner))
        THEN Put(product, kBuyboxWinner, Get(json_data, kBuyboxWinner))
        ELSE product

IsDirect(json_data) == KeyIn(json_data, kProduct) /\ IsDict(Get(json_data, kProduct))

\* process_json_file's "fallback approach": the items it loops over
FallbackItems(json_data) ==
    LET product_data == extract_product_data(json_data)
    IN  IF product_data.t = "null"
        THEN IF IsDict(json_data) THEN <<json_data>>
             ELSE IF IsList(json_data) THEN json_data.v
             ELSE <<>>
        ELSE IF IsList(product_data) THEN product_data.v
        ELSE <<product_data>>

\* the candidate records of a decoded document, in the order they are handled
FileItems(json_data) ==
    IF IsDirect(json_data) THEN <<DirectProduct(json_data)>> ELSE FallbackItems(json_data)

\* ------------------------------------------------------------ the file system

\* The files a run can be given.  bad.json is not valid JSON; the others decode.
Catalog == <<"a.json", "b.json", "bad.json", "multi.json", "none.json">>

Disk ==
    [p \in {Catalog[i] : i \in DOMAIN Catalog} |->
       CASE p = "a.json" ->
              [valid |-> TRUE,
               json |-> JDict(<< <<kProduct, JDict(<< <<<<"i","t","e","m","_","i","d">>, JStr(<<"4","2">>)>>,
                                                       <<<<"t","i","t","l","e">>, JStr(<<"H","a","m","m","e","r">>)>>,
                                                       <<kBuyboxWinner, JDict(<< <<kPrice, JStr(<<"$","1","9",".","9","9">>)>> >>)>> >>)>> >>)]
         [] p = "b.json" ->
              [valid |-> TRUE,
               json |-> JDict(<< <<kProduct, JDict(<< <<<<"i","t","e","m","_","i","d">>, JStr(<<"4","2">>)>>,
                                                       <<<<"t","i","t","l","e">>, JStr(<<"H","a","m","m","e","r"," ","v","2">>)>> >>)>> >>)]
         [] p = "bad.json" ->
              [valid |-> FALSE, json |-> JNull]
         [] p = "multi.json" ->
              [valid |-> TRUE,
               json |-> JDict(<< <<kProducts, JList(<<
                           JDict(<< <<<<"i","t","e","m","_","i","d">>, JStr(<<"7">>)>>, <<<<"t","i","t","l","e">>, JStr(<<"S","a","w">>)>> >>),
                           JDict(<< <<<<"i","t","e","m","_","i","d">>, JStr(<<"8">>)>>,
                                    <<<<"s","p","e","c","i","f","i","c","a","t","i","o","n","s">>,
                                      JList(<< JDict(<< <<<<"k","e","y">>, JInt(5)>>, <<<<"v","a","l","u","e">>, JStr(<<"x">>)>> >>) >>)>> >>),
                           JDict(<< <<<<"i","t","e","m","_","i","d">>, JInt(42)>>, <<<<"p","r","i","c","e">>, JInt(5)>> >>),
                           JDict(<< <<<<"i","t","e","m","_","i","d">>, JStr(<<"7">>)>>, <<<<"t","i","t","l","e">>, JStr(<<"S","a","w"," ","a","g","a","i","n">>)>> >>) >>)>> >>)]
         [] p = "none.json" ->
              [valid |-> TRUE, json |-> JDict(<< <<kProducts, JList(<<>>)>> >>)] ]

\* ------------------------------------------------------------------- bounds

MaxFiles      == 3   \* files in one run
MaxBatchSize  == 2   \* batch_size is drawn from 1..MaxBatchSize
MaxSinkFaults == 1   \* writes to the output file that may fail in one run
MaxFields     == 3   \* fields of a record handed to standardize_record on its own
MaxRequests   == 2   \* conversion requests sent to the web application
MaxSeconds    == 2   \* seconds the clock of the web application advances

\* the default width of the thread pool
max_workers   == 4

\* readings of time.time(), as strings
Clock == {<<"1",".","5">>, <<"2",".","5">>}

\* ------------------------------------------------------------------- state

VARIABLES
    json_files,        \* the resolved input: a sequence of paths
    batch_size,        \* argument
    skip_duplicates,   \* argument
    progress_callback, \* argument: whether a callback was supplied
    main,              \* where combine_json_to_csv is: "init", "loop", "returned", "raised"
    worker,            \* per submitted file: the state of its process_json_file call
    known_records,     \* the shared dict of record keys (its key set)
    stats,             \* the statistics dict
    all_errors,        \* the errors collected from the files
    processed_count,
    temp_data,         \* rows waiting to be written
    csvfile,           \* what the output file has received, in order
    handled,           \* the futures as_completed has already yielded
    progress,          \* the calls made to the progress callback, in order
    sink_faults,       \* failed writes so far
    call,              \* a call of one function on its own: its argument and result
    web                \* the web application: its clock, conversion_tasks, its requests

vars == << json_files, batch_size, skip_duplicates, progress_callback, main, worker,
           known_records, stats, all_errors, processed_count, temp_data, csvfile,
           handled, progress, sink_faults, call, web >>

\* what no step of a batch run changes
args == << json_files, batch_size, skip_duplicates, progress_callback, call, web >>

Files == DOMAIN json_files

HeaderLine == [kind |-> "header", row |-> [h \in HeaderSet |-> h], src |-> <<0, 0>>]
BlankLine  == [kind |-> "blank", row |-> [h \in HeaderSet |-> <<>>], src |-> <<0, 0>>]
\* a data row; src (the file and the item it came from) is bookkeeping of the model
RowLine(row, f, i) == [kind |-> "row", row |-> row, src |-> <<f, i>>]

Error(kind, file) == [kind |-> kind, file |-> file]

NoRow == <<>>

NewWorker ==
    [pc |-> "new", i |-> 0, data |-> <<>>, record_count |-> 0, duplicate_count |-> 0,
     errors |-> <<>>, standardized |-> NoRow, record_key |-> <<>>, local |-> {}]

\* the subsequence of the catalog with the positions in S
RECURSIVE Pick(_, _)
Pick(S, i) ==
    IF i > Len(Catalog) THEN <<>>
    ELSE (IF i \in S THEN <<Catalog[i]>> ELSE <<>>) \o Pick(S, i + 1)

NoCall == [fn |-> "none", arg |-> JNull, before |-> JNull, out |-> <<>>,
           again |-> <<>>, state |-> "idle"]

\* the web application before its first request
NoRequest == [pc |-> "idle", task_id |-> <<>>, output_file |-> "", total |-> 0,
              seen |-> [status |-> "none", output_file |-> "", total |-> 0]]

NoWeb == [now |-> 0, conversion_tasks |-> <<>>,
          request |-> [r \in 1..MaxRequests |-> NoRequest]]

\* the state of a run before its first step
Fresh ==
    /\ main = "init"
    /\ worker = [f \in DOMAIN json_files |-> NewWorker]
    /\ known_records = {}
    /\ stats = [files_processed |-> 0, files_with_errors |-> 0, records_processed |-> 0,
                duplicates_skipped |-> 0, errors |-> <<>>]
    /\ all_errors = <<>>
    /\ processed_count = 0
    /\ temp_data = <<>>
    /\ csvfile = <<>>
    /\ handled = {}
    /\ progress = <<>>
    /\ sink_faults = 0

Init ==
    /\ \E S \in SUBSET DOMAIN Catalog :
          /\ Cardinality(S) <= MaxFiles
          /\ json_files = Pick(S, 1)
    /\ batch_size \in 1..MaxBatchSize
    /\ skip_duplicates \in BOOLEAN
    /\ progress_callback \in BOOLEAN
    /\ call = NoCall
    /\ web = NoWeb
    /\ Fresh

\* ----------------------------------------------------- process_json_file

\* What decoding, shape resolution and standardization give for a file depends
\* on the file alone, so it is computed once per file: the items of each file
\* that decodes, and standardize_record's row for each item it accepts.
ItemsOf ==
    [p \in DOMAIN Disk |->
        IF Disk[p].valid /\ ~DocRaises(Disk[p].json) THEN FileItems(Disk[p].json) ELSE <<>>]

Standardized ==
    [p \in DOMAIN Disk |->
        [i \in DOMAIN ItemsOf[p] |->
            IF IsDict(ItemsOf[p][i]) /\ ~StandardizeRaises(ItemsOf[p][i])
            THEN standardize_record(ItemsOf[p][i])
            ELSE NoRow]]

Items(f) == ItemsOf[json_files[f]]

\* the dict the call tests and updates: the shared one, or its own when the
\* caller passed None
Known(f) == IF skip_duplicates THEN known_records ELSE worker[f].local

\* after item i: the next item, or the return
Advance(w, f) ==
    IF w.i >= Len(Items(f))
    THEN [w EXCEPT !.pc = "done", !.standardized = NoRow, !.record_key = <<>>]
    ELSE [w EXCEPT !.pc = "item", !.i = w.i + 1, !.standardized = NoRow, !.record_key = <<>>]

\* A faulty variant of ReadAndDecode: a file that does not decode ends the call
\* without an error being kept.
ReadAndDecodeSilent(w, f) ==
    LET path == json_files[f]
    IN  IF ~Disk[path].valid \/ DocRaises(Disk[path].json)
        THEN [w EXCEPT !.pc = "done"]
        ELSE Advance(w, f)

\* A faulty variant of ReadAndDecode: a file that does not decode leaves the
\* call waiting and it never returns.
ReadAndDecodeHangs(w, f) ==
    LET path == json_files[f]
    IN  IF ~Disk[path].valid \/ DocRaises(Disk[path].json)
        THEN [w EXCEPT !.pc = "hung"]
        ELSE Advance(w, f)

\* A faulty variant of OnStandardizeError: the exception ends the whole file.
OnStandardizeErrorAbort(w, f) ==
    [w EXCEPT !.pc = "done",
              !.errors = Append(@, Error("standardize", json_files[f]))]

\* Reading and decoding the file: json.JSONDecodeError and any other exception
\* end the call with one error and what was collected so far (nothing).
ReadAndDecode(w, f) ==
    LET path == json_files[f]
    IN  IF ~Disk[path].valid
        THEN [w EXCEPT !.pc = "done", !.errors = Append(@, Error("parse", path))]
        ELSE IF DocRaises(Disk[path].json)
        THEN [w EXCEPT !.pc = "done", !.errors = Append(@, Error("read", path))]
        ELSE Advance(w, f)

\* The except clause around one record: the error is kept and the loop goes on.
OnStandardizeError(w, f) ==
    Advance([w EXCEPT !.errors = Append(@, Error("standardize", json_files[f]))], f)

\* A pool thread takes the next queued call: it reads and decodes the file and
\* resolves its shape.
OpenFile(f) ==
    /\ worker[f].pc = "queued"
    /\ \A g \in Files : g < f => worker[g].pc # "queued"
    /\ Cardinality({g \in Files : worker[g].pc \in {"item", "insert"}}) < max_workers
    /\ worker' = [worker EXCEPT ![f] = ReadAndDecode(worker[f], f)]
    /\ UNCHANGED << args, main, known_records, stats, all_errors, processed_count,
                    temp_data, csvfile, handled, progress, sink_faults >>

\* One item up to the membership test  record_key in known_records.
CheckItem(f) ==
    /\ worker[f].pc = "item"
    /\ LET w == worker[f]
           item == Items(f)[w.i]
           path == json_files[f]
       IN  IF ~IsDict(item)
           THEN worker' = [worker EXCEPT ![f] =
                    Advance([w EXCEPT !.errors = Append(@, Error("nondict", path))], f)]
           ELSE IF StandardizeRaises(item)
           THEN worker' = [worker EXCEPT ![f] = OnStandardizeError(w, f)]
           ELSE LET standardized == Standardized[path][w.i]
                IN  \E now \in Clock :
                       LET record_key == generate_record_key(standardized, now)
                       IN  worker' = [worker EXCEPT ![f] =
                              IF record_key \in Known(f)
                              THEN Advance([w EXCEPT !.duplicate_count = @ + 1], f)
                              ELSE [w EXCEPT !.pc = "insert",
                                             !.standardized = standardized,
                                             !.record_key = record_key]]
    /\ UNCHANGED << args, main, known_records, stats, all_errors, processed_count,
                    temp_data, csvfile, handled, progress, sink_faults >>

\* A faulty variant of InsertItem: the pool thread puts the row into the
\* buffer of the result loop itself.
InsertItemIntoBuffer(f) ==
    /\ worker[f].pc = "insert"
    /\ LET w == worker[f]
       IN  /\ worker' = [worker EXCEPT ![f] =
                 Advance([w EXCEPT !.local = IF skip_duplicates THEN @ ELSE @ \cup {w.record_key},
                                   !.data = Append(@, RowLine(w.standardized, f, w.i)),
                                   !.record_count = @ + 1], f)]
           /\ temp_data' = Append(temp_data, RowLine(w.standardized, f, w.i))
           /\ known_records' = IF skip_duplicates
                               THEN known_records \cup {w.record_key}
                               ELSE known_records
    /\ UNCHANGED << args, main, stats, all_errors, processed_count,
                    csvfile, handled, progress, sink_faults >>

\* The key was not found: mark it and keep the row.
InsertItem(f) ==
    /\ worker[f].pc = "insert"
    /\ LET w == worker[f]
       IN  /\ worker' = [worker EXCEPT ![f] =
                 Advance([w EXCEPT !.local = IF skip_duplicates THEN @ ELSE @ \cup {w.record_key},
                                   !.data = Append(@, RowLine(w.standardized, f, w.i)),
                                   !.record_count = @ + 1], f)]
           /\ known_records' = IF skip_duplicates
                               THEN known_records \cup {w.record_key}
                               ELSE known_records
    /\ UNCHANGED << args, main, stats, all_errors, processed_count,
                    temp_data, csvfile, handled, progress, sink_faults >>

\* --------------------------------------------------- combine_json_to_csv

Call(completed, kind) == [completed |-> completed, total |-> Len(json_files), kind |-> kind]

Report(completed, kind) ==
    IF progress_callback THEN Append(progress, Call(completed, kind)) ELSE progress

\* A faulty variant of NoFiles: the empty input raises.
NoFilesRaises ==
    /\ main = "init"
    /\ json_files = <<>>
    /\ main' = "raised"
    /\ UNCHANGED << args, worker, known_records, stats, all_errors, processed_count,
                    temp_data, csvfile, handled, progress, sink_faults >>

\* No input file: the statistics come back with one error and nothing else is done.
NoFiles ==
    /\ main = "init"
    /\ json_files = <<>>
    /\ stats' = [stats EXCEPT !.errors = Append(@, Error("nofiles", ""))]
    /\ main' = "returned"
    /\ UNCHANGED << args, worker, known_records, all_errors, processed_count,
                    temp_data, csvfile, handled, progress, sink_faults >>

\* The first progress call, the submission of every file to the pool, and the
\* opening of the output file with its header and the blank row after it.
Start ==
    /\ main = "init"
    /\ json_files # <<>>
    /\ progress' = Report(0, "start")
    /\ worker' = [f \in Files |-> [worker[f] EXCEPT !.pc = "queued"]]
    /\ csvfile' = <<HeaderLine, BlankLine>>
    /\ main' = "loop"
    /\ UNCHANGED << args, known_records, stats, all_errors, processed_count,
                    temp_data, handled, sink_faults >>

\* The same, with the output file failing before the loop: the exception leaves
\* combine_json_to_csv (the pool still runs the submitted calls to their end).
StartSinkFails ==
    /\ main = "init"
    /\ json_files # <<>>
    /\ sink_faults < MaxSinkFaults
    /\ sink_faults' = sink_faults + 1
    /\ progress' = Report(0, "start")
    /\ worker' = [f \in Files |-> [worker[f] EXCEPT !.pc = "queued"]]
    /\ \E written \in 0..1 : csvfile' = SubSeq(<<HeaderLine, BlankLine>>, 1, written)
    /\ main' = "raised"
    /\ UNCHANGED << args, known_records, stats, all_errors, processed_count,
                    temp_data, handled >>

\* A faulty variant of Counted: the duplicates of the file are not added.
CountedDropsDuplicates(f) ==
    LET w == worker[f]
    IN  [stats EXCEPT !.files_processed = @ + 1,
                      !.records_processed = @ + w.record_count,
                      !.files_with_errors = IF w.errors # <<>> THEN @ + 1 ELSE @]

\* The statistics after the result of file f has been taken.
Counted(f) ==
    LET w == worker[f]
    IN  [stats EXCEPT !.files_processed = @ + 1,
                      !.records_processed = @ + w.record_count,
                      !.duplicates_skipped = @ + w.duplicate_count,
                      !.files_with_errors = IF w.errors # <<>> THEN @ + 1 ELSE @]

\* A faulty variant of HandleResult: the batch is written and temp_data is not
\* cleared.
HandleResultKeepsBuffer(f) ==
    /\ main = "loop"
    /\ worker[f].pc = "done"
    /\ f \notin handled
    /\ handled' = handled \cup {f}
    /\ processed_count' = processed_count + 1
    /\ stats' = Counted(f)
    /\ all_errors' = all_errors \o worker[f].errors
    /\ progress' = Report(processed_count + 1, "file")
    /\ LET extended == temp_data \o worker[f].data
       IN  /\ csvfile' = IF Len(extended) >= batch_size THEN csvfile \o extended ELSE csvfile
           /\ temp_data' = extended
    /\ UNCHANGED << args, main, worker, known_records, sink_faults >>

\* One turn of the loop over as_completed, for a finished file f, every write
\* succeeding.
HandleResult(f) ==
    /\ main = "loop"
    /\ worker[f].pc = "done"
    /\ f \notin handled
    /\ handled' = handled \cup {f}
    /\ processed_count' = processed_count + 1
    /\ stats' = Counted(f)
    /\ all_errors' = all_errors \o worker[f].errors
    /\ progress' = Report(processed_count + 1, "file")
    /\ LET extended == temp_data \o worker[f].data
       IN  IF Len(extended) >= batch_size
           THEN /\ csvfile' = csvfile \o extended
                /\ temp_data' = <<>>
           ELSE /\ csvfile' = csvfile
                /\ temp_data' = extended
    /\ UNCHANGED << args, main, worker, known_records, sink_faults >>

\* The same turn with a writerow of the batch failing after `written` rows: the
\* except clause of the loop records it against the file and the loop goes on,
\* the rows still in temp_data.
HandleResultSinkFails(f) ==
    /\ main = "loop"
    /\ worker[f].pc = "done"
    /\ f \notin handled
    /\ sink_faults < MaxSinkFaults
    /\ LET extended == temp_data \o worker[f].data
       IN  /\ Len(extended) >= batch_size
           /\ \E written \in 0..(Len(extended) - 1) :
                 csvfile' = csvfile \o SubSeq(extended, 1, written)
           /\ temp_data' = extended
    /\ sink_faults' = sink_faults + 1
    /\ handled' = handled \cup {f}
    /\ processed_count' = processed_count + 1
    /\ stats' = [Counted(f) EXCEPT !.errors = Append(@, Error("process", json_files[f])),
                                   !.files_with_errors = @ + 1]
    /\ all_errors' = all_errors \o worker[f].errors
    /\ progress' = Report(processed_count + 1, "file")
    /\ UNCHANGED << args, main, worker, known_records >>

\* After the loop: the remaining rows are written, the statistics completed,
\* the last progress call made, and the statistics returned.
Finish ==
    /\ main = "loop"
    /\ handled = Files
    /\ csvfile' = csvfile \o temp_data
    /\ stats' = [stats EXCEPT !.errors = @ \o all_errors]
    /\ progress' = Report(Len(json_files), "complete")
    /\ main' = "returned"
    /\ UNCHANGED << args, worker, known_records, all_errors, processed_count,
                    temp_data, handled, sink_faults >>

\* After the loop, with a writerow of the remaining rows failing: nothing
\* catches it.
FinishSinkFails ==
    /\ main = "loop"
    /\ handled = Files
    /\ temp_data # <<>>
    /\ sink_faults < MaxSinkFaults
    /\ sink_faults' = sink_faults + 1
    /\ \E written \in 0..(Len(temp_data) - 1) :
          csvfile' = csvfile \o SubSeq(temp_data, 1, written)
    /\ main' = "raised"
    /\ UNCHANGED << args, worker, known_records, stats, all_errors, processed_count,
                    temp_data, handled, progress >>

\* ------------------------------------------------ one function on its own

\* The fields a record handed to standardize_record is made of: it holds the
\* chosen ones in this order.
FieldPool == <<
    <<<<"i","t","e","m","_","i","d">>, JStr(<<"4","2">>)>>,
    <<<<"i","t","e","m","_","i","d">>, JStr(<<>>)>>,
    <<<<"m","o","d","e","l","_","n","u","m","b","e","r">>, JStr(<<"M","1">>)>>,
    <<<<"i","d","e","n","t","i","f","i","e","r","s">>, JDict(<< <<<<"p","r","o","d","u","c","t","_","i","d">>, JInt(7)>>, <<<<"i","t","e","m","_","i","d">>, JStr(<<"9">>)>> >>)>>,
    <<<<"t","i","t","l","e">>, JStr(<<"W","i","d","g","e","t">>)>>,
    <<<<"n","a","m","e">>, JStr(<<"N","m">>)>>,
    <<<<"d","e","s","c","r","i","p","t","i","o","n">>, JStr(<<"D","e","s","c">>)>>,
    <<<<"d","e","s","c","r","i","p","t","i","o","n">>, JStr(<<>>)>>,
    <<<<"d","e","t","a","i","l","s">>, JStr(<<"D","e","t">>)>>,
    <<<<"b","u","y","b","o","x","_","w","i","n","n","e","r">>, JDict(<< <<<<"p","r","i","c","e">>, JStr(<<"$","1","9",".","9","9">>)>> >>)>>,
    <<<<"b","u","y","b","o","x","_","w","i","n","n","e","r">>, JDict(<< <<<<"p","r","i","c","e">>, JStr(<<>>)>> >>)>>,
    <<<<"p","r","i","c","e">>, JStr(<<"$","1",",","2","3","4",".","5","6">>)>>,
    <<<<"r","a","t","e">>, JStr(<<"3">>)>>,
    <<<<"i","t","e","m","_","d","e","s","c","r","i","p","t","i","o","n">>, JStr(<<"R","e","s">>)>>,
    <<<<"s","p","e","c","i","f","i","c","a","t","i","o","n","s">>, JList(<< JDict(<< <<<<"k","e","y">>, JInt(5)>>, <<<<"v","a","l","u","e">>, JStr(<<"x">>)>> >>) >>)>>,
    <<<<"S","o","u","r","c","e">>, JStr(<<"E","V","I","L">>)>>,
    <<<<"P","u","r","c","h","a","s","e"," ","A","c","c","o","u","n","t">>, JStr(<<"E","V","I","L">>)>>,
    <<<<"V","e","n","d","o","r">>, JStr(<<"E","V","I","L">>)>>,
    <<<<"C","F",".","M","a","r","k","u","p">>, JStr(<<"1","%">>)>>,
    <<<<"C","F",".","S","u","p","p","l","i","e","r">>, JStr(<<"E","V","I","L">>)>> >>

RECURSIVE PickFields(_, _)
PickFields(S, i) ==
    IF i > Len(FieldPool) THEN <<>>
    ELSE (IF i \in S THEN <<FieldPool[i]>> ELSE <<>>) \o PickFields(S, i + 1)

\* the records of at most MaxFields fields, no key twice
Records ==
    { JDict(PickFields(S, 1)) :
        S \in { T \in SUBSET DOMAIN FieldPool :
                  /\ Cardinality(T) <= MaxFields
                  /\ \A i, j \in T : i # j => FieldPool[i][1] # FieldPool[j][1] } }

\* The values handed to extract_price.
Dollar   == { <<>>, <<"$">> }
Whole    == { <<"5">>, <<"1","9">>, <<"1",",","2","3","4">>, <<"1","2",",","3","4","5",",","6","7","8">> }
Decimals == { <<>>, <<".","5">>, <<".","5","6">> }

\* optional "$", digits with comma thousands separators, optional decimal part
CurrencyStrings == { d \o w \o f : d \in Dollar, w \in Whole, f \in Decimals }

\* strings without a digit
NoDigitStrings == { <<"N","/","A">>, <<>>, <<"f","r","e","e">>, <<"$">>, <<"n","/","a",","," ","t","b","d">>, <<",">> }

PriceInputs ==
    { JInt(1999), JInt(0), JInt(0 - 5), JFloat(1999, 2), JFloat(50, 1),
      JBool(TRUE), JNull }
    \cup { JStr(s) : s \in CurrencyStrings }
    \cup { JStr(s) : s \in NoDigitStrings }
    \cup { JStr(<<"U","S","D"," ","5">>), JStr(<<"f","r","o","m"," ","$","3",".","5","0"," ","e","a","c","h">>) }

\* The names handed to map_field_name: every key of the table, and some others.
FieldNames ==
    { FIELD_MAPPING[i][1] : i \in DOMAIN FIELD_MAPPING }
    \cup { <<"I","t","e","m"," ","I","D">>, <<"w","e","i","g","h","t">>, <<"P","r","o","d","u","c","t","_","N","a","m","e">> }

\* The product documents handed to the two ways from a document to its row.
NestedWinners ==
    { <<>>,
      << <<kBuyboxWinner, JDict(<< <<kPrice, JStr(<<"$","1","9",".","9","9">>)>> >>)>> >>,
      << <<kBuyboxWinner, JDict(<< <<kPrice, JStr(<<>>)>> >>)>> >>,
      << <<kBuyboxWinner, JDict(<< <<kPrice, JInt(5)>> >>)>> >>,
      << <<kBuyboxWinner, JDict(<< <<<<"c","u","r","r","e","n","c","y">>, JStr(<<"U","S","D">>)>> >>)>> >> }

Documents ==
    { JDict(<< <<kProduct,
                 JDict(<< <<<<"i","t","e","m","_","i","d">>, JStr(<<"1">>)>> >> \o nested \o rate \o price)>> >>
            \o top) :
        nested \in NestedWinners,
        rate \in { <<>>, << <<<<"r","a","t","e">>, JStr(<<"3">>)>> >> },
        price \in { <<>>, << <<kPrice, JStr(<<"$","1",",","2","3","4",".","5","6">>)>> >> },
        top \in { <<>>, << <<kBuyboxWinner, JDict(<< <<kPrice, JStr(<<"$","7">>)>> >>)>> >> } }

\* The search-results documents handed to process_json_file: one item, in the
\* array format (the product under "product", its siblings beside it) and in
\* the object format (the item itself in search_results.products).
Siblings ==
    { snippet \o content \o specs :
        snippet \in { <<>>, << <<<<"s","n","i","p","p","e","t">>, JStr(<<"C","u","t","s"," ","w","o","o","d">>)>> >> },
        content \in { <<>>, << <<<<"c","o","n","t","e","n","t","_","s","p","e","c">>,
                                 JDict(<< <<<<"d","e","s","c","r","i","p","t","i","o","n">>, JStr(<<"F","r","o","m"," ","c","o","n","t","e","n","t">>)>> >>)>> >> },
        specs \in { <<>>, << <<<<"s","p","e","c","i","f","i","c","a","t","i","o","n","s">>,
                               JList(<< JDict(<< <<<<"k","e","y">>, JStr(<<"D","e","s","c","r","i","p","t","i","o","n">>)>>,
                                                 <<<<"v","a","l","u","e">>, JStr(<<"F","r","o","m"," ","s","p","e","c","s">>)>> >>) >>)>> >> } }

ItemFields ==
    { << <<<<"i","t","e","m","_","i","d">>, JStr(<<"1">>)>> >> \o title \o description :
        title \in { <<>>, << <<<<"t","i","t","l","e">>, JStr(<<"S","a","w">>)>> >> },
        description \in { <<>>, << <<<<"d","e","s","c","r","i","p","t","i","o","n">>, JStr(<<"O","w","n"," ","t","e","x","t">>)>> >> } }

SearchDocuments ==
    { JDict(<< <<kSearchResults,
                 JList(<< JDict(<< <<kProduct, JDict(item)>> >> \o sib) >>)>> >>) :
        item \in ItemFields, sib \in Siblings }
    \cup
    { JDict(<< <<kSearchResults,
                 JDict(<< <<kProducts, JList(<< JDict(item \o sib) >>)>> >>)>> >>) :
        item \in ItemFields, sib \in Siblings }

\* The documents handed to the shape tests: with and without a top-level
\* product, a mapping or not, beside search_results and products keys.
ShapeDocuments ==
    { JDict(product \o search \o products) :
        product \in { <<>>,
                      << <<kProduct, JDict(<< <<<<"i","t","e","m","_","i","d">>, JStr(<<"1">>)>>,
                                              <<<<"t","i","t","l","e">>, JStr(<<"P">>)>> >>)>> >>,
                      << <<kProduct, JStr(<<"x">>)>> >> },
        search \in { <<>>,
                     << <<kSearchResults,
                          JList(<< JDict(<< <<kProduct,
                                              JDict(<< <<<<"i","t","e","m","_","i","d">>, JStr(<<"2">>)>> >>)>> >>) >>)>> >>,
                     << <<kSearchResults,
                          JDict(<< <<kProducts,
                                     JList(<< JDict(<< <<<<"i","t","e","m","_","i","d">>, JStr(<<"3">>)>> >>) >>)>> >>)>> >> },
        products \in { <<>>,
                       << <<kProducts,
                            JList(<< JDict(<< <<<<"i","t","e","m","_","i","d">>, JStr(<<"4">>)>> >>),
                                     JDict(<< <<<<"i","t","e","m","_","i","d">>, JStr(<<"5">>)>> >>) >>)>> >> } }

\* The rows handed to generate_record_key, two at a time.
LongDescriptions ==
    { <<"a","a","a","a","a","a","a","a","a","a","a","a","a","a","a","a","a","a","a","a","a","a","a","a","a","a","a","a","a","a","a","a","a","a","a","a","a","a","a","a","a","a","a","a","a","a","a","a","a","a","b","b","b","b","b">>,
      <<"a","a","a","a","a","a","a","a","a","a","a","a","a","a","a","a","a","a","a","a","a","a","a","a","a","a","a","a","a","a","a","a","a","a","a","a","a","a","a","a","a","a","a","a","a","a","a","a","a","a","c","c","c","c","c">> }

KeyRows ==
    { [h \in HeaderSet |->
          IF h = hItemID THEN id
          ELSE IF h = hSKU THEN sku
          ELSE IF h = hItemName THEN name
          ELSE IF h = hDescription THEN desc
          ELSE DefaultRow[h]] :
        id \in { <<>>, <<"4","2">> },
        sku \in { <<>>, <<"4","2">> },
        name \in { <<>>, <<" ","S","a","w"," ">> },
        desc \in { <<>>, <<"C","u","t","s">> } \cup LongDescriptions }
    \cup { [h \in HeaderSet |-> <<>>] }

Pending(fn, arg) ==
    [fn |-> fn, arg |-> arg, before |-> arg, out |-> <<>>, again |-> <<>>,
     state |-> "pending"]

InitFn ==
    /\ json_files = <<>>
    /\ batch_size = 1
    /\ skip_duplicates = TRUE
    /\ progress_callback = FALSE
    /\ web = NoWeb
    /\ Fresh
    /\ \/ \E record \in Records : call = Pending("standardize_record", record)
       \/ \E value \in PriceInputs : call = Pending("extract_price", value)
       \/ \E name \in FieldNames : call = Pending("map_field_name", JStr(name))
       \/ \E doc \in Documents \cup SearchDocuments :
             call = Pending("process_json_file", doc)
       \/ \E doc \in ShapeDocuments : call = Pending("resolve", doc)
       \/ \E doc \in ShapeDocuments : call = Pending("candidates", doc)
       \/ \E r1, r2 \in KeyRows : call = Pending("generate_record_key", <<r1, r2>>)
       \/ \E doc \in Documents : call = Pending("extract_product_data", doc)

\* A faulty variant of RecordAfter: the call takes the price out of the mapping
\* it was handed.
RecordAfterPop(record) ==
    JDict(SelectSeq(record.v, LAMBDA kv : kv[1] # kPrice))

\* The mapping handed to standardize_record, as it is after the call: the
\* function reads it (in, isinstance, [], .items()) and assigns only to its own
\* dict, standardized.
RecordAfter(record) == record

\* standardize_record(arg) returns its row
Standardize ==
    /\ call.fn = "standardize_record"
    /\ call.state = "pending"
    /\ ~StandardizeRaises(call.arg)
    /\ call' = [call EXCEPT !.out = standardize_record(call.arg),
                            !.arg = RecordAfter(call.arg),
                            !.state = "returned"]
    /\ UNCHANGED << web, json_files, batch_size, skip_duplicates, progress_callback, main,
                    worker, known_records, stats, all_errors, processed_count,
                    temp_data, csvfile, handled, progress, sink_faults >>

\* standardize_record(arg) raises
StandardizeFails ==
    /\ call.fn = "standardize_record"
    /\ call.state = "pending"
    /\ StandardizeRaises(call.arg)
    /\ call' = [call EXCEPT !.state = "raised"]
    /\ UNCHANGED << web, json_files, batch_size, skip_duplicates, progress_callback, main,
                    worker, known_records, stats, all_errors, processed_count,
                    temp_data, csvfile, handled, progress, sink_faults >>

\* standardize_record is applied a second time to the same mapping
StandardizeAgain ==
    /\ call.fn = "standardize_record"
    /\ call.state = "returned"
    /\ ~StandardizeRaises(call.arg)
    /\ call' = [call EXCEPT !.again = standardize_record(call.arg),
                            !.arg = RecordAfter(call.arg),
                            !.state = "returned twice"]
    /\ UNCHANGED << web, json_files, batch_size, skip_duplicates, progress_callback, main,
                    worker, known_records, stats, all_errors, processed_count,
                    temp_data, csvfile, handled, progress, sink_faults >>

\* extract_price(arg) returns its string
ExtractPrice ==
    /\ call.fn = "extract_price"
    /\ call.state = "pending"
    /\ call' = [call EXCEPT !.out = extract_price(call.arg), !.state = "returned"]
    /\ UNCHANGED << web, json_files, batch_size, skip_duplicates, progress_callback, main,
                    worker, known_records, stats, all_errors, processed_count,
                    temp_data, csvfile, handled, progress, sink_faults >>

\* map_field_name(arg) returns its column name
MapFieldName ==
    /\ call.fn = "map_field_name"
    /\ call.state = "pending"
    /\ call' = [call EXCEPT !.out = map_field_name(call.arg.v), !.state = "returned"]
    /\ UNCHANGED << web, json_files, batch_size, skip_duplicates, progress_callback, main,
                    worker, known_records, stats, all_errors, processed_count,
                    temp_data, csvfile, handled, progress, sink_faults >>

\* The row process_json_file makes of the one record of a product document.
ProcessDocument ==
    /\ call.fn = "process_json_file"
    /\ call.state = "pending"
    /\ call' = [call EXCEPT !.out = standardize_record(FileItems(call.arg)[1]),
                            !.state = "returned"]
    /\ UNCHANGED << web, json_files, batch_size, skip_duplicates, progress_callback, main,
                    worker, known_records, stats, all_errors, processed_count,
                    temp_data, csvfile, handled, progress, sink_faults >>

\* The row standardize_record makes of what extract_product_data returns for a
\* product document.
ResolveDocument ==
    /\ call.fn = "extract_product_data"
    /\ call.state = "pending"
    /\ call' = [call EXCEPT !.out = standardize_record(extract_product_data(call.arg)),
                            !.state = "returned"]
    /\ UNCHANGED << web, json_files, batch_size, skip_duplicates, progress_callback, main,
                    worker, known_records, stats, all_errors, processed_count,
                    temp_data, csvfile, handled, progress, sink_faults >>

\* What extract_product_data returns for a document.
ResolveShape ==
    /\ call.fn = "resolve"
    /\ call.state = "pending"
    /\ call' = [call EXCEPT !.out = extract_product_data(call.arg), !.state = "returned"]
    /\ UNCHANGED << web, json_files, batch_size, skip_duplicates, progress_callback, main,
                    worker, known_records, stats, all_errors, processed_count,
                    temp_data, csvfile, handled, progress, sink_faults >>

\* The candidate records process_json_file takes from a document.
CandidateRecords ==
    /\ call.fn = "candidates"
    /\ call.state = "pending"
    /\ call' = [call EXCEPT !.out = JList(FileItems(call.arg)), !.state = "returned"]
    /\ UNCHANGED << web, json_files, batch_size, skip_duplicates, progress_callback, main,
                    worker, known_records, stats, all_errors, processed_count,
                    temp_data, csvfile, handled, progress, sink_faults >>

\* generate_record_key for each of two rows, the clock read at each call
GenerateRecordKey ==
    /\ call.fn = "generate_record_key"
    /\ call.state = "pending"
    /\ \E now1, now2 \in Clock :
          call' = [call EXCEPT !.out = << generate_record_key(call.arg[1], now1),
                                          generate_record_key(call.arg[2], now2) >>,
                               !.state = "returned"]
    /\ UNCHANGED << web, json_files, batch_size, skip_duplicates, progress_callback, main,
                    worker, known_records, stats, all_errors, processed_count,
                    temp_data, csvfile, handled, progress, sink_faults >>

NextFn ==
    \/ Standardize
    \/ StandardizeFails
    \/ StandardizeAgain
    \/ ExtractPrice
    \/ MapFieldName
    \/ ProcessDocument
    \/ ResolveDocument
    \/ ResolveShape
    \/ CandidateRecords
    \/ GenerateRecordKey

SpecFn == InitFn /\ [][NextFn]_vars

Next ==
    \/ NoFiles
    \/ Start
    \/ StartSinkFails
    \/ \E f \in Files : OpenFile(f)
    \/ \E f \in Files : CheckItem(f)
    \/ \E f \in Files : InsertItem(f)
    \/ \E f \in Files : HandleResult(f)
    \/ \E f \in Files : HandleResultSinkFails(f)
    \/ Finish
    \/ FinishSinkFails

Spec == Init /\ [][Next]_vars

\* The run in which the output file accepts every write, every pool thread
\* keeps going until its call returns, and the loop over as_completed takes
\* each finished call.
PoolThread(f) ==
    /\ f \in Files
    /\ \/ OpenFile(f)
       \/ CheckItem(f)
       \/ InsertItem(f)

Orchestrator ==
    \/ NoFiles
    \/ Start
    \/ \E f \in Files : HandleResult(f)
    \/ Finish

NextLive ==
    \/ Orchestrator
    \/ \E f \in 1..MaxFiles : PoolThread(f)

SpecLive ==
    /\ Init
    /\ [][NextLive]_vars
    /\ WF_vars(Orchestrator)
    /\ \A f \in 1..MaxFiles : WF_vars(PoolThread(f))

\* ------------------------------------------------------ the web application

\* what no step of the web application changes
batch == << json_files, batch_size, skip_duplicates, progress_callback, main, worker,
            known_records, stats, all_errors, processed_count, temp_data, csvfile,
            handled, progress, sink_faults, call >>

Requests == 1..MaxRequests

\* the output names a request can ask for
OutputNames == {"output.csv", "report.csv"}

InitWeb ==
    /\ json_files = <<>>
    /\ batch_size = 1
    /\ skip_duplicates = TRUE
    /\ progress_callback = FALSE
    /\ call = NoCall
    /\ web = NoWeb
    /\ Fresh

\* conversion_tasks[task_id] = entry
Track(tasks, task_id, entry) ==
    [id \in DOMAIN tasks \cup {task_id} |-> IF id = task_id THEN entry ELSE tasks[id]]

\* del conversion_tasks[task_id]
Untrack(tasks, task_id) == [id \in DOMAIN tasks \ {task_id} |-> tasks[id]]

\* task_id = str(int(time.time()))
TaskId(now, tasks) == NatStr(now)

\* time.time() moves on to the next second.
Tick ==
    /\ web.now < MaxSeconds
    /\ web' = [web EXCEPT !.now = @ + 1]
    /\ UNCHANGED batch

\* POST /convert with no file selected: the form comes back, no task is made.
ConvertNoFiles(r) ==
    /\ web.request[r].pc = "idle"
    /\ web' = [web EXCEPT !.request[r].pc = "rejected"]
    /\ UNCHANGED batch

\* POST /convert with `total` files of which `saved` are kept: the task is
\* entered under its ID, and either no file was kept and the task is in error,
\* or the conversion thread is started.
Convert(r) ==
    /\ web.request[r].pc = "idle"
    /\ \E output_filename \in OutputNames, total \in 1..2 :
       \E saved \in 0..total :
          LET task_id == TaskId(web.now, web.conversion_tasks)
              entry == IF saved = 0
                       THEN [status |-> "error", output_file |-> output_filename,
                             total |-> total, stats |-> 0 - 1]
                       ELSE [status |-> "processing", output_file |-> output_filename,
                             total |-> saved, stats |-> 0 - 1]
          IN  web' = [web EXCEPT
                        !.conversion_tasks = Track(@, task_id, entry),
                        !.request[r] = [@ EXCEPT !.pc = IF saved = 0 THEN "refused" ELSE "running",
                                                 !.task_id = task_id,
                                                 !.output_file = output_filename,
                                                 !.total = entry.total]]
    /\ UNCHANGED batch

\* The conversion thread of request r comes to its end: the task under its ID
\* is completed with the statistics (here the number of files processed); when
\* the task is no longer there the assignment raises and so does the handler
\* of the exception, and the thread ends.
RunConversion(r) ==
    /\ web.request[r].pc = "running"
    /\ LET task_id == web.request[r].task_id
       IN  IF task_id \in DOMAIN web.conversion_tasks
           THEN \E files_processed \in 0..web.request[r].total :
                   web' = [web EXCEPT
                      !.conversion_tasks[task_id] =
                           [@ EXCEPT !.status = "completed", !.stats = files_processed],
                      !.request[r].pc = "completed"]
           ELSE web' = [web EXCEPT !.request[r].pc = "crashed"]
    /\ UNCHANGED batch

\* The conversion thread of request r fails (the output file cannot be
\* opened): the task under its ID is put in error.
RunConversionFails(r) ==
    /\ web.request[r].pc = "running"
    /\ LET task_id == web.request[r].task_id
       IN  IF task_id \in DOMAIN web.conversion_tasks
           THEN web' = [web EXCEPT !.conversion_tasks[task_id].status = "error",
                                   !.request[r].pc = "failed"]
           ELSE web' = [web EXCEPT !.request[r].pc = "crashed"]
    /\ UNCHANGED batch

\* The cleanup thread of request r wakes up, an hour after the conversion, and
\* drops the task under its ID.
Cleanup(r) ==
    /\ web.request[r].pc = "completed"
    /\ LET task_id == web.request[r].task_id
       IN  web' = [web EXCEPT
                     !.conversion_tasks = IF task_id \in DOMAIN @ THEN Untrack(@, task_id) ELSE @,
                     !.request[r].pc = "cleaned"]
    /\ UNCHANGED batch

\* GET /status/<task_id> by the client of request r: what it is told.
GetStatus(r) ==
    /\ web.request[r].pc \in {"refused", "running", "completed", "failed", "crashed"}
    /\ LET task_id == web.request[r].task_id
           told == IF task_id \in DOMAIN web.conversion_tasks
                   THEN [status |-> web.conversion_tasks[task_id].status,
                         output_file |-> web.conversion_tasks[task_id].output_file,
                         total |-> web.conversion_tasks[task_id].total]
                   ELSE [status |-> "not found", output_file |-> "", total |-> 0]
       IN  /\ told # web.request[r].seen
           /\ web' = [web EXCEPT !.request[r].seen = told]
    /\ UNCHANGED batch

NextWeb ==
    \/ Tick
    \/ \E r \in Requests : ConvertNoFiles(r)
    \/ \E r \in Requests : Convert(r)
    \/ \E r \in Requests : RunConversion(r)
    \/ \E r \in Requests : RunConversionFails(r)
    \/ \E r \in Requests : Cleanup(r)
    \/ \E r \in Requests : GetStatus(r)

SpecWeb == InitWeb /\ [][NextWeb]_vars

\* ================================================================ properties

\* the key of a row already written or kept (the clock is read only for a row
\* with every column empty)
KeyOf(row) == generate_record_key(row, <<>>)

\* item i of file f is a mapping that standardize_record accepts
Good(f, i) == IsDict(Items(f)[i]) /\ ~StandardizeRaises(Items(f)[i])
GoodItems(f) == {i \in DOMAIN Items(f) : Good(f, i)}
AllGood == UNION {{<<f, i>> : i \in GoodItems(f)} : f \in Files}

Decodes(f) == Disk[json_files[f]].valid /\ ~DocRaises(Disk[json_files[f]].json)

\* the positions of the output file that hold a data row
RowLines == {n \in DOMAIN csvfile : csvfile[n].kind = "row"}

\* how many entries of the error list errs name the file
ErrorsNaming(errs, file) == Cardinality({n \in DOMAIN errs : errs[n].file = file})

\* how often the row kept as entry n of file f's result is in the output file
TimesWritten(f, n) ==
    Cardinality({m \in RowLines : /\ csvfile[m].src = worker[f].data[n].src
                                  /\ csvfile[m].row = worker[f].data[n].row})

CleanReturn == main = "returned" /\ sink_faults = 0

\* C1: with duplicate skipping on, the membership test and the insert on the
\* shared key set act as one step under every interleaving: of all records of
\* the run that share a key exactly one is written and every other is counted
\* as a duplicate.
C1_OnePerKey ==
    (CleanReturn /\ skip_duplicates) =>
        LET keys == {KeyOf(Standardized[json_files[x[1]]][x[2]]) : x \in AllGood}
        IN  /\ \A k \in keys :
                  Cardinality({m \in RowLines : KeyOf(csvfile[m].row) = k}) = 1
            /\ stats.records_processed = Cardinality(keys)
            /\ stats.duplicates_skipped = Cardinality(AllGood) - Cardinality(keys)

\* C2: the batch of the two product files with item_id "42", one with
\* product.buybox_winner.price "$19.99" and one without a price, always ends
\* with records_processed = 1, duplicates_skipped = 1 and the one written row
\* having Item ID "42" and Rate "19.99".
C2_EndToEnd ==
    (CleanReturn /\ skip_duplicates /\ json_files = <<"a.json", "b.json">>) =>
        /\ stats.records_processed = 1
        /\ stats.duplicates_skipped = 1
        /\ Cardinality(RowLines) = 1
        /\ \A m \in RowLines : /\ csvfile[m].row[hItemID] = <<"4","2">>
                               /\ csvfile[m].row[hRate] = <<"1","9",".","9","9">>

\* C3: a file that is not valid JSON gives no record and exactly one entry of
\* the error list, naming it; it counts once in files_with_errors; the run is
\* not aborted, every file is counted as processed, and every record kept from
\* the files that decode is written.
C3_MalformedTolerated ==
    /\ sink_faults = 0 => main # "raised"
    /\ CleanReturn =>
        /\ stats.files_processed = Len(json_files)
        /\ stats.files_with_errors = Cardinality({f \in Files : worker[f].errors # <<>>})
        /\ \A f \in Files :
              IF ~Disk[json_files[f]].valid
              THEN /\ worker[f].record_count = 0
                   /\ worker[f].data = <<>>
                   /\ \A m \in RowLines : csvfile[m].src[1] # f
                   /\ ErrorsNaming(stats.errors, json_files[f]) = 1
                   /\ worker[f].errors # <<>>
              ELSE /\ worker[f].record_count + worker[f].duplicate_count
                        + Len(worker[f].errors) = Len(Items(f))
                   /\ \A n \in DOMAIN worker[f].data : TimesWritten(f, n) = 1

C3_Witness ==
    /\ CleanReturn
    /\ Len(json_files) = 3
    /\ Cardinality({f \in Files : ~Disk[json_files[f]].valid}) = 1
    /\ stats.files_processed = 3
    /\ stats.files_with_errors = 1
    /\ Len(stats.errors) = 1
    /\ RowLines # {}

\* C4: a write to the output file that fails during a run leaves the run as a
\* fatal error: it is not caught, no further file is handled and no statistics
\* are returned.
C4_SinkFailureFatal == sink_faults > 0 => main = "raised"

\* C5: an input that resolves to no file makes the run return at once, without
\* raising, with files_processed = 0, records_processed = 0 and exactly one
\* error message, nothing submitted and nothing written.
C5_NoFiles ==
    json_files = <<>> =>
        /\ main \in {"init", "returned"}
        /\ main = "returned" =>
              /\ stats.files_processed = 0
              /\ stats.records_processed = 0
              /\ stats.duplicates_skipped = 0
              /\ Len(stats.errors) = 1
              /\ stats.errors[1].kind = "nofiles"
              /\ csvfile = <<>>
              /\ temp_data = <<>>
              /\ progress = <<>>
              /\ known_records = {}

C5_Witness ==
    /\ json_files = <<>>
    /\ main = "returned"
    /\ Len(stats.errors) = 1
    /\ csvfile = <<>>

\* C6: with a progress callback supplied, every run calls it at least once at
\* the start and at least once at completion, the completion call after every
\* per-file call.
C6_ProgressContract ==
    (main = "returned" /\ progress_callback) =>
        /\ Len(progress) >= 2
        /\ progress[1].kind = "start"
        /\ progress[Len(progress)].kind = "complete"
        /\ \A n \in DOMAIN progress : progress[n].kind = "file" => n < Len(progress)

\* C7 as first stated: at the end of a run in which every write succeeded the
\* output file holds the header once and first, and after it exactly the kept
\* rows, each once, so that the rows after the header number records_processed.
C7_RowsAfterHeader ==
    (CleanReturn /\ json_files # <<>>) =>
        /\ csvfile[1].kind = "header"
        /\ \A m \in 2..Len(csvfile) : csvfile[m].kind = "row"
        /\ \A f \in Files : \A n \in DOMAIN worker[f].data : TimesWritten(f, n) = 1
        /\ Len(csvfile) - 1 = stats.records_processed

\* C7, amended: at the end of a run over at least one file in which every write
\* succeeded the output file holds the header once and first, then one blank
\* row, then exactly the kept rows, each once: the rows after the header number
\* records_processed + 1.
C7_SinkContents ==
    (CleanReturn /\ json_files # <<>>) =>
        /\ Len(csvfile) >= 2
        /\ csvfile[1].kind = "header"
        /\ csvfile[2].kind = "blank"
        /\ \A m \in 3..Len(csvfile) : csvfile[m].kind = "row"
        /\ \A f \in Files : \A n \in DOMAIN worker[f].data : TimesWritten(f, n) = 1
        /\ \A m \in RowLines :
              \E f \in Files : \E n \in DOMAIN worker[f].data :
                 /\ worker[f].data[n].src = csvfile[m].src
                 /\ worker[f].data[n].row = csvfile[m].row
        /\ Cardinality(RowLines) = stats.records_processed
        /\ Len(csvfile) - 1 = stats.records_processed + 1

C7_Witness ==
    /\ CleanReturn
    /\ stats.records_processed >= 2
    /\ Len(csvfile) = stats.records_processed + 2
    /\ \E f, g \in Files : f # g /\ worker[f].data # <<>> /\ worker[g].data # <<>>

\* C8: when standardize_record raises on one record of a file with several,
\* that record alone is dropped and an error is kept for the file; every other
\* record of the file is still standardized and either kept or counted as a
\* duplicate, and the dropped record leaves no key behind.
C8_RecordScopedFailure ==
    /\ \A f \in Files :
          (worker[f].pc = "done" /\ Decodes(f)) =>
             LET failing == {i \in DOMAIN Items(f) :
                                IsDict(Items(f)[i]) /\ StandardizeRaises(Items(f)[i])}
                 kept == {worker[f].data[n].src[2] : n \in DOMAIN worker[f].data}
             IN  /\ Cardinality({n \in DOMAIN worker[f].errors :
                                    /\ worker[f].errors[n].kind = "standardize"
                                    /\ worker[f].errors[n].file = json_files[f]})
                       = Cardinality(failing)
                 /\ worker[f].record_count + worker[f].duplicate_count
                       = Cardinality(GoodItems(f))
                 /\ worker[f].record_count = Cardinality(kept)
                 /\ kept \subseteq GoodItems(f)
                 /\ \A n \in DOMAIN worker[f].data :
                       worker[f].data[n].row
                          = standardize_record(Items(f)[worker[f].data[n].src[2]])
                 /\ skip_duplicates =>
                       \A i \in GoodItems(f) :
                          KeyOf(standardize_record(Items(f)[i])) \in known_records
    /\ \A k \in known_records :
          \E x \in AllGood : k = KeyOf(Standardized[json_files[x[1]]][x[2]])

C8_Witness ==
    \E f \in Files :
       /\ worker[f].pc = "done"
       /\ json_files[f] = "multi.json"
       /\ \E n \in DOMAIN worker[f].errors : worker[f].errors[n].kind = "standardize"
       /\ StandardizeRaises(Items(f)[2])
       /\ worker[f].record_count + worker[f].duplicate_count = 3
       /\ \E n \in DOMAIN worker[f].data : worker[f].data[n].src = <<f, 3>>

\* C9: a file that decodes and from which neither the shape tests nor the
\* fallback give any record is recorded as an error for that file and counted
\* in files_with_errors.
C9_NoDataError ==
    CleanReturn =>
        \A f \in Files :
           (Disk[json_files[f]].valid /\ FileItems(Disk[json_files[f]].json) = <<>>) =>
              /\ ErrorsNaming(stats.errors, json_files[f]) >= 1
              /\ stats.files_with_errors >= 1

\* C10: for every input mapping, also one with fields named like the constant
\* columns, the row standardize_record returns has Source, Purchase Account,
\* Vendor and CF.Supplier "HD" and CF.Markup "43%".
C10_ConstantColumns ==
    (call.fn = "standardize_record" /\ call.state = "returned") =>
        /\ call.out[hSource] = <<"H","D">>
        /\ call.out[hPurchaseAccount] = <<"H","D">>
        /\ call.out[hVendor] = <<"H","D">>
        /\ call.out[hCFMarkup] = <<"4","3","%">>
        /\ call.out[hCFSupplier] = <<"H","D">>

C10_Witness ==
    /\ call.fn = "standardize_record"
    /\ call.state = "returned"
    /\ Has(call.arg, hSource)
    /\ Has(call.arg, hCFMarkup)
    /\ Has(call.arg, hVendor)
    /\ call.out[hSource] = <<"H","D">>
    /\ call.out[hCFMarkup] = <<"4","3","%">>

\* C22: with duplicate skipping off, every record that was standardized is
\* written, records with equal keys inside one file included, and
\* duplicates_skipped is 0 at the end of the run.
C22_AllowDuplicates ==
    (CleanReturn /\ ~skip_duplicates) =>
        /\ stats.duplicates_skipped = 0
        /\ stats.records_processed = Cardinality(AllGood)
        /\ \A x \in AllGood :
              Cardinality({m \in RowLines : csvfile[m].src = x}) = 1

\* the positions of the buffer and of the output file that hold item x
InBuffer(x) == {n \in DOMAIN temp_data : temp_data[n].src = x}
InSink(x)   == {m \in RowLines : csvfile[m].src = x}

\* C23: after each completed file has been handled the buffer holds fewer than
\* batch_size rows: a buffer that reached batch_size has been written in full
\* and cleared, and no kept row is lost or written twice by a flush.
C23_BufferBounded ==
    main = "loop" =>
        /\ Len(temp_data) < batch_size
        /\ \A f \in handled :
              \A n \in DOMAIN worker[f].data :
                 LET x == worker[f].data[n].src
                 IN  Cardinality(InBuffer(x)) + Cardinality(InSink(x)) = 1

\* the handled files against which an error has been recorded
FilesInError ==
    {f \in handled :
        \/ worker[f].errors # <<>>
        \/ \E n \in DOMAIN stats.errors :
              stats.errors[n].kind = "process" /\ stats.errors[n].file = json_files[f]}

\* C24: at every point of a run, also one in which a write fails while a
\* file's result is handled, files_with_errors is the number of distinct files
\* with at least one recorded error, and is at most the number of input files.
C24_FilesWithErrors ==
    /\ stats.files_with_errors = Cardinality(FilesInError)
    /\ stats.files_with_errors <= Len(json_files)

\* a step that changes the buffer or the output file
BufferStep == temp_data' # temp_data \/ csvfile' # csvfile

\* the rows of one file lie next to each other in the buffer
Contiguous ==
    \A i, k \in DOMAIN temp_data :
       (i < k /\ temp_data[i].src[1] = temp_data[k].src[1]) =>
          \A j \in i..k : temp_data[j].src[1] = temp_data[i].src[1]

\* C25: the buffer and the output file are touched by the result loop alone:
\* no step of a pool thread changes them, every step that does appends the
\* whole result of one file to the buffer or writes rows after those already
\* written, and the rows of one file are next to each other in the buffer.
C25_Serialized ==
    /\ [][BufferStep =>
            /\ main \in {"init", "loop"}
            /\ main = "loop" => worker' = worker
            /\ known_records' = known_records
            /\ Len(csvfile') >= Len(csvfile)
            /\ SubSeq(csvfile', 1, Len(csvfile)) = csvfile
            /\ \/ temp_data' = temp_data
               \/ temp_data' = <<>>
               \/ \E f \in Files : /\ f \notin handled
                                   /\ handled' = handled \cup {f}
                                   /\ temp_data' = temp_data \o worker[f].data]_vars
    /\ []Contiguous

C25_Witness ==
    /\ main = "loop"
    /\ temp_data # <<>>
    /\ Cardinality(RowLines) >= 1
    /\ \E f, g \in Files :
          /\ f # g
          /\ worker[f].pc = "insert"
          /\ worker[g].pc = "item"

\* C29: at the end of every batch run records_processed + duplicates_skipped
\* is the number of records, over all files, that were standardized: each is
\* counted once, as kept or as a duplicate.
C29_RecordsConserved ==
    main = "returned" =>
        /\ stats.records_processed + stats.duplicates_skipped = Cardinality(AllGood)
        /\ \A f \in Files :
              worker[f].record_count + worker[f].duplicate_count
                 = Cardinality(GoodItems(f))

C29_Witness ==
    /\ main = "returned"
    /\ Len(json_files) = 3
    /\ skip_duplicates
    /\ stats.duplicates_skipped >= 2
    /\ stats.records_processed >= 2
    /\ \E f \in Files : json_files[f] = "multi.json"

\* C26: when every pool thread keeps going and the output file accepts every
\* write, a batch run over a non-empty file list eventually returns its
\* statistics, and then every input file has been handled exactly once:
\* files_processed is the number of input files.
C26_Terminates ==
    /\ (main = "init" /\ json_files # <<>>) ~>
          (main = "returned" /\ stats.files_processed = Len(json_files))
    /\ [](main = "returned" /\ json_files # <<>> =>
             /\ handled = Files
             /\ processed_count = Len(json_files)
             /\ stats.files_processed = Len(json_files))

C26_Witness ==
    /\ main = "returned"
    /\ Len(json_files) = 3
    /\ stats.files_processed = 3
    /\ handled = {1, 2, 3}
    /\ \E f \in Files : ~Disk[json_files[f]].valid

\* ------------------------------------------------- properties of the functions

\* standardize_record has returned its row for the mapping call.before
RowReturned == call.fn = "standardize_record" /\ call.state = "returned"

\* the string of the first field of record among keys whose value is truthy,
\* none when there is no such field
RECURSIVE FirstTruthy(_, _)
FirstTruthy(record, keys) ==
    IF keys = <<>> THEN [found |-> FALSE, s |-> <<>>]
    ELSE IF Has(record, Head(keys)) /\ Truthy(Get(record, Head(keys)))
    THEN [found |-> TRUE, s |-> str(Get(record, Head(keys)))]
    ELSE FirstTruthy(record, Tail(keys))

\* record carries buybox_winner.price
HasWinnerPrice(record) ==
    /\ Has(record, kBuyboxWinner)
    /\ IsDict(Get(record, kBuyboxWinner))
    /\ Has(Get(record, kBuyboxWinner), kPrice)

\* the price the two paths yield: buybox_winner.price parsed, else the
\* top-level price parsed; the empty string when neither yields a value
YieldedPrice(record) ==
    IF HasWinnerPrice(record) /\ extract_price(Get(Get(record, kBuyboxWinner), kPrice)) # <<>>
    THEN extract_price(Get(Get(record, kBuyboxWinner), kPrice))
    ELSE IF ~HasWinnerPrice(record) /\ Has(record, kPrice)
    THEN extract_price(Get(record, kPrice))
    ELSE <<>>

\* C11: in every row standardize_record produces, Rate, Purchase Rate and
\* CF.Cost carry the same value: the parsed price when buybox_winner.price or
\* the top-level price yields one, the empty string in all three otherwise.
C11_PriceColumnsAgree ==
    RowReturned =>
        /\ call.out[hRate] = YieldedPrice(call.before)
        /\ call.out[hPurchaseRate] = call.out[hRate]
        /\ call.out[hCFCost] = call.out[hRate]

\* C12: whenever buybox_winner.price is absent or empty and a top-level price
\* field is present, Rate is extract_price of the top-level price.
C12_PriceFallback ==
    ( /\ RowReturned
      /\ Has(call.before, kPrice)
      /\ \/ ~HasWinnerPrice(call.before)
         \/ ~Truthy(Get(Get(call.before, kBuyboxWinner), kPrice)) ) =>
        call.out[hRate] = extract_price(Get(call.before, kPrice))

\* the document has no top-level buybox_winner and has product.buybox_winner
\* with a price field
NestedPriced(doc) ==
    /\ ~Has(doc, kBuyboxWinner)
    /\ Has(doc, kProduct)
    /\ IsDict(Get(doc, kProduct))
    /\ HasWinnerPrice(Get(doc, kProduct))

\* C13: for every product document with no top-level buybox_winner and with
\* product.buybox_winner holding a price field, the row made of it, by
\* process_json_file and by extract_product_data followed by
\* standardize_record alike, has Rate equal to extract_price of that price.
C13_NestedWinnerPrice ==
    ( /\ call.fn \in {"process_json_file", "extract_product_data"}
      /\ call.state = "returned"
      /\ NestedPriced(call.before) ) =>
        call.out[hRate] =
            extract_price(Get(Get(Get(call.before, kProduct), kBuyboxWinner), kPrice))

\* C14: Description and CF.Description both equal the first truthy value among
\* description, details and title, and otherwise whatever Item Name resolved
\* to.
C14_DescriptionChain ==
    RowReturned =>
        LET first == FirstTruthy(call.before, << <<"d","e","s","c","r","i","p","t","i","o","n">>, <<"d","e","t","a","i","l","s">>, <<"t","i","t","l","e">> >>)
            expected == IF first.found THEN first.s ELSE call.out[hItemName]
        IN  /\ call.out[hDescription] = expected
            /\ call.out[hCFDescription] = expected

\* C15: in every row standardize_record produces, CF.Description equals
\* Description.
C15_DescriptionMirrored ==
    RowReturned => call.out[hCFDescription] = call.out[hDescription]

\* the strings of the Item ID sources the record has, in the order of the chain
ItemIDSources(record) ==
    LET ids == IF Has(record, <<"i","d","e","n","t","i","f","i","e","r","s">>) /\ IsDict(Get(record, <<"i","d","e","n","t","i","f","i","e","r","s">>))
               THEN Get(record, <<"i","d","e","n","t","i","f","i","e","r","s">>) ELSE JDict(<<>>)
        from(d, key) == IF Has(d, key) THEN <<str(Get(d, key))>> ELSE <<>>
    IN  from(record, <<"i","t","e","m","_","i","d">>) \o from(record, <<"m","o","d","e","l","_","n","u","m","b","e","r">>)
        \o from(ids, <<"p","r","o","d","u","c","t","_","i","d">>) \o from(ids, <<"i","t","e","m","_","i","d">>)

\* C16: Item ID is the first non-empty value of the chain item_id,
\* model_number, identifiers.product_id, identifiers.item_id; a record whose
\* item_id is empty and whose model_number is not gets the model_number.
C16_ItemIDChain ==
    RowReturned =>
        LET nonEmpty == SelectSeq(ItemIDSources(call.before), LAMBDA s : s # <<>>)
        IN  nonEmpty # <<>> => call.out[hItemID] = Head(nonEmpty)

Numeral(s) == RemoveChar(RemoveChar(s, "$"), ",")

\* C18: extract_price returns the decimal string of a numeric input, and of a
\* currency-formatted string the numeral with the separators stripped:
\* "$1,234.56" gives "1234.56" and 1999 gives "1999".
C18_PriceParsed ==
    (call.fn = "extract_price" /\ call.state = "returned") =>
        /\ call.before.t = "int" => call.out = IntStr(call.before.v)
        /\ call.before.t = "float" => call.out = FloatStr(call.before.v[1], call.before.v[2])
        /\ (call.before.t = "str" /\ call.before.v \in CurrencyStrings) =>
              call.out = Numeral(call.before.v)
        /\ (call.before.t = "str" /\ call.before.v = <<"$","1",",","2","3","4",".","5","6">>) => call.out = <<"1","2","3","4",".","5","6">>
        /\ (call.before.t = "int" /\ call.before.v = 1999) => call.out = <<"1","9","9","9">>
        /\ (call.before.t = "float" /\ call.before.v = <<1999, 2>>) => call.out = <<"1","9",".","9","9">>

C18_Witness ==
    /\ call.fn = "extract_price"
    /\ call.state = "returned"
    /\ call.before.t = "str"
    /\ call.before.v = <<"$","1","2",",","3","4","5",",","6","7","8",".","5","6">>
    /\ call.out = <<"1","2","3","4","5","6","7","8",".","5","6">>

\* C19: for every string holding no digit, extract_price returns the string
\* unchanged.
C19_NonNumericUnchanged ==
    ( /\ call.fn = "extract_price"
      /\ call.state = "returned"
      /\ call.before.t = "str"
      /\ \A i \in DOMAIN call.before.v : ~IsDigit(call.before.v[i]) ) =>
        call.out = call.before.v

\* C20: for every source key listed in FIELD_MAPPING, map_field_name returns
\* the column the table assigns to that key.
C20_TableKeysMapped ==
    (call.fn = "map_field_name" /\ call.state = "returned") =>
        \A i \in DOMAIN FIELD_MAPPING :
            FIELD_MAPPING[i][1] = call.before.v => call.out = FIELD_MAPPING[i][2]

\* the one item of a search-results document, with its siblings: the result in
\* the array format, the product itself in the object format
SearchItem(doc) ==
    IF IsList(Get(doc, kSearchResults))
    THEN Get(doc, kSearchResults).v[1]
    ELSE Get(Get(doc, kSearchResults), kProducts).v[1]

\* the fields of the product of that item
SearchProduct(doc) ==
    IF IsList(Get(doc, kSearchResults))
    THEN Get(SearchItem(doc), kProduct)
    ELSE SearchItem(doc)

\* the value of the first specifications entry of item whose key is
\* "Description", none when there is no such entry
SpecDescription(item) ==
    IF Has(item, <<"s","p","e","c","i","f","i","c","a","t","i","o","n","s">>) /\ IsList(Get(item, <<"s","p","e","c","i","f","i","c","a","t","i","o","n","s">>))
    THEN LET specs == Get(item, <<"s","p","e","c","i","f","i","c","a","t","i","o","n","s">>).v
             hits == {i \in DOMAIN specs :
                        /\ IsDict(specs[i])
                        /\ Has(specs[i], <<"k","e","y">>)
                        /\ Has(specs[i], <<"v","a","l","u","e">>)
                        /\ IsStr(Get(specs[i], <<"k","e","y">>))
                        /\ Get(specs[i], <<"k","e","y">>).v = <<"D","e","s","c","r","i","p","t","i","o","n">>
                        /\ Truthy(Get(specs[i], <<"v","a","l","u","e">>))}
         IN  IF hits = {} THEN <<>>
             ELSE <<str(Get(specs[CHOOSE i \in hits : \A j \in hits : i <= j], <<"v","a","l","u","e">>))>>
    ELSE <<>>

\* the truthy values the probes find, in the order of the probes
Probes(doc) ==
    LET item == SearchItem(doc)
        product == SearchProduct(doc)
        field(d, key) == IF Has(d, key) /\ Truthy(Get(d, key)) THEN <<str(Get(d, key))>> ELSE <<>>
    IN  field(item, <<"s","n","i","p","p","e","t">>)
        \o (IF Has(item, <<"c","o","n","t","e","n","t","_","s","p","e","c">>) /\ IsDict(Get(item, <<"c","o","n","t","e","n","t","_","s","p","e","c">>))
            THEN field(Get(item, <<"c","o","n","t","e","n","t","_","s","p","e","c">>), <<"d","e","s","c","r","i","p","t","i","o","n">>) ELSE <<>>)
        \o SpecDescription(item)
        \o field(product, <<"t","i","t","l","e">>)

\* C21: in the batch path a search-results item without description gets, as
\* its Description, the first truthy value among the sibling snippet,
\* content_spec.description, the specifications entry with key "Description"
\* and the item's own title: an item with a snippet and a title gets the
\* snippet.
C21_DescriptionProbes ==
    ( /\ call.fn = "process_json_file"
      /\ call.state = "returned"
      /\ Has(call.before, kSearchResults)
      /\ ~Has(SearchProduct(call.before), <<"d","e","s","c","r","i","p","t","i","o","n">>)
      /\ Probes(call.before) # <<>> ) =>
        call.out[hDescription] = Head(Probes(call.before))

\* the level of the priority at which the key of a row is built
KeyLevel(row) ==
    IF row[hItemID] # <<>> THEN 1
    ELSE IF row[hSKU] # <<>> THEN 2
    ELSE IF row[hItemName] # <<>> /\ row[hDescription] # <<>> THEN 3
    ELSE IF \E h \in HeaderSet : row[h] # <<>> THEN 4
    ELSE 5

\* the first five non-empty values of a row, in the order of the columns
FirstFive(row) ==
    LET filled == SelectSeq(STANDARD_HEADERS, LAMBDA h : row[h] # <<>>)
    IN  [i \in 1..(IF Len(filled) < 5 THEN Len(filled) ELSE 5) |-> row[filled[i]]]

\* C27: generate_record_key keys a row with a non-empty Item ID by the Item ID
\* alone, otherwise by a non-empty SKU alone, otherwise by the lower-cased
\* trimmed Item Name and the first 50 characters of the Description, otherwise
\* by the first five non-empty standard values; keys of different levels never
\* coincide, and two rows with the same Item ID have the same key whatever
\* their other columns hold.
C27_KeyPriority ==
    (call.fn = "generate_record_key" /\ call.state = "returned") =>
        /\ \A n \in {1, 2} :
              LET row == call.before[n]
                  key == call.out[n]
              IN  /\ KeyLevel(row) = 1 => key = <<"i","d",":">> \o row[hItemID]
                  /\ KeyLevel(row) = 2 => key = <<"s","k","u",":">> \o row[hSKU]
                  /\ KeyLevel(row) = 3 =>
                        key = <<"n","a","m","e","_","d","e","s","c",":">> \o lower(strip(row[hItemName])) \o <<"_">>
                              \o Prefix(lower(strip(row[hDescription])), 50)
                  /\ KeyLevel(row) = 4 => key = <<"h","a","s","h",":">> \o join(<<"_">>, FirstFive(row))
        /\ KeyLevel(call.before[1]) # KeyLevel(call.before[2]) => call.out[1] # call.out[2]
        /\ ( /\ call.before[1][hItemID] # <<>>
             /\ call.before[1][hItemID] = call.before[2][hItemID] ) =>
              call.out[1] = call.out[2]

C27_Witness ==
    /\ call.fn = "generate_record_key"
    /\ call.state = "returned"
    /\ call.before[1][hItemID] = <<"4","2">>
    /\ call.before[2][hItemID] = <<>>
    /\ call.before[2][hSKU] = <<"4","2">>
    /\ call.out[1] = <<"i","d",":","4","2">>
    /\ call.out[2] = <<"s","k","u",":","4","2">>

\* C28: a document whose top-level product is a mapping yields exactly one
\* candidate record, built from that product, also when the document carries
\* search_results or products keys as well.
C28_ProductFirst ==
    ( /\ call.fn \in {"resolve", "candidates"}
      /\ call.state = "returned"
      /\ Has(call.before, kProduct)
      /\ IsDict(Get(call.before, kProduct)) ) =>
        LET record == IF call.fn = "resolve" THEN call.out ELSE call.out.v[1]
        IN  /\ call.fn = "candidates" => Len(call.out.v) = 1
            /\ IsDict(record)
            /\ \A i \in DOMAIN Get(call.before, kProduct).v :
                  LET field == Get(call.before, kProduct).v[i]
                  IN  /\ Has(record, field[1])
                      /\ repr(Get(record, field[1])) = repr(field[2])

C28_Witness ==
    /\ call.fn = "candidates"
    /\ call.state = "returned"
    /\ Has(call.before, kProduct)
    /\ IsDict(Get(call.before, kProduct))
    /\ Has(call.before, kSearchResults)
    /\ Has(call.before, kProducts)
    /\ Len(call.out.v) = 1
    /\ str(Get(call.out.v[1], <<"i","t","e","m","_","i","d">>)) = <<"1">>

\* C30: every accepted conversion request has a task ID distinct from the ID
\* of every other task still tracked, so that the status, the progress, the
\* statistics and the output file name of one request are never overwritten
\* by, or read in place of, another's.
C30_TaskIdsDistinct ==
    /\ \A r1, r2 \in Requests :
          (r1 # r2 /\ web.request[r1].pc \in {"refused", "running", "completed", "failed"}
                   /\ web.request[r2].pc \in {"refused", "running", "completed", "failed"}) =>
             web.request[r1].task_id # web.request[r2].task_id
    /\ \A r \in Requests :
          web.request[r].pc \in {"refused", "running", "completed", "failed"} =>
             /\ web.request[r].task_id \in DOMAIN web.conversion_tasks
             /\ web.conversion_tasks[web.request[r].task_id].output_file
                   = web.request[r].output_file
             /\ web.conversion_tasks[web.request[r].task_id].total = web.request[r].total
    /\ \A r \in Requests :
          web.request[r].seen.status \notin {"none", "not found"} =>
             /\ web.request[r].seen.output_file = web.request[r].output_file
             /\ web.request[r].seen.total = web.request[r].total

====
